---- MODULE Spec2Model ----
(***************************************************************************)
(* A model of pymake's symbol table (src/pymake/symtablemk.py): the        *)
(* entries, the table operations and the expansion of recursive variables. *)
(*                                                                         *)
(* Strings are sequences of one-character strings.  An expression tree is  *)
(* a sequence of tokens, each a Literal or a VarRef naming a variable.     *)
(* The iteration order of the Python dict `symbols` is not tracked: the    *)
(* .VARIABLES callback lists the keys in the fixed order NameOrder.        *)
(***************************************************************************)
EXTENDS Integers, Sequences, FiniteSets, TLC

VARIABLES symbols, stack, export_default_value, command_line_flag, nops,
          vchar_scanner, result, line_scanner

vars == <<symbols, stack, export_default_value, command_line_flag, nops,
          vchar_scanner, result, line_scanner>>

---------------------------------------------------------------------------
(* Bounds of the model. *)

\* number of calls in one run of Spec
MaxOps == 3
\* number of calls in one run of SpecEval
MaxEvalOps == 4
\* length of an entry's list of appended expressions
MaxAppends == 1
\* depth of one name's undo deque
MaxStack == 1
\* length of a simple variable's string
MaxStrLen == 4
\* length of the patterns of a substitution reference
MaxPatLen == 1
\* number of pieces a tokenized line is made of
MaxPieces == 3
\* number of characters after the opening "$(" or "${" of a tokenized
\* reference
MaxRefLen == 3
\* number of items (characters, references) of an argument of ifeq
MaxArgLen == 3
\* number of items of the token list of a function
MaxFnLen == 4
\* number of items of a scanner on its own, and of calls made on it
MaxScanLen == 2
MaxScanOps == 6
\* number of cursors saved at a time on a scanner on its own
MaxScanStack == 2
\* largest row and column of the position of an error
MaxPos == 2
\* number of lines after a rule line
MaxLines == 3
\* number of lines after a conditional directive
MaxCondLines == 5

---------------------------------------------------------------------------
(* Names, strings, expressions. *)

NameOrder == <<".VARIABLES", "MAKE_VERSION", "CC", "X">>

Names == {NameOrder[i] : i \in 1..Len(NameOrder)}

\* the names the process environment may define
EnvNames == {"CC"}

\* the names the calls of a run of Spec are made with
OpNames == {"MAKE_VERSION", "CC", "X"}

\* the names the calls of a run of SpecEval are made with
EvalNames == {"CC", "X"}

NameChars(n) ==
    CASE n = ".VARIABLES" -> <<".", "V">>
      [] n = "MAKE_VERSION" -> <<"M", "V">>
      [] n = "CC" -> <<"C", "C">>
      [] n = "X" -> <<"X">>

SP == <<" ">>

NoPos == "None"
DevNullPos == "/dev/null:0:0"
EnvPos == "environment:0:0"
MkPos == "Makefile:1:0"

Lit(s) == [t |-> "Literal", n |-> "", s |-> s]
Ref(n) == [t |-> "VarRef", n |-> n, s |-> <<>>]

\* a stored value: a string (str), an expression tree (Symbol) or None
StrVal(s) == [k |-> "str", str |-> s, sym |-> <<>>]
SymVal(e) == [k |-> "Symbol", str |-> <<>>, sym |-> e]
NoneVal == [k |-> "None", str |-> <<>>, sym |-> <<>>]

\* the right-hand sides the operations are called with
ExprInputs == {<<Ref("CC")>>, <<Lit(<<"w">>), Ref("X")>>}
ValueInputs == {StrVal(<<"v">>)} \cup {SymVal(e) : e \in ExprInputs}
PosInputs == {MkPos}

\* the patterns substitution references are made of
PatChars == {"v", "o"}
PatInputs == UNION {[1..k -> PatChars] : k \in 0..MaxPatLen}

---------------------------------------------------------------------------
(* Entry and its subclasses. *)

Entry(cls, value, pos) ==
    [cls |-> cls, value |-> value, pos |-> pos, export |-> FALSE,
     appends |-> <<>>, loop |-> 0]

FileEntry(value, pos) ==
    Entry("FileEntry", value, IF pos = NoPos THEN DevNullPos ELSE pos)

DefaultEntry(value) == Entry("DefaultEntry", value, NoPos)

CallbackEntry == Entry("CallbackEntry", NoneVal, NoPos)

EnvVarEntry(value) == [Entry("EnvVarEntry", value, EnvPos) EXCEPT !.export = TRUE]

CommandLineEntry(value) ==
    [Entry("CommandLineEntry", value, NoPos) EXCEPT !.export = TRUE]

AutomaticEntry(value, pos) == Entry("AutomaticEntry", value, pos)

entry_origin(e) ==
    CASE e.cls = "FileEntry" -> "file"
      [] e.cls \in {"DefaultEntry", "CallbackEntry"} -> "default"
      [] e.cls = "EnvVarEntry" -> "environment"
      [] e.cls = "CommandLineEntry" -> "command line"
      [] e.cls = "AutomaticEntry" -> "automatic"

never_export(e) == e.cls \in {"DefaultEntry", "CallbackEntry", "AutomaticEntry"}

set_export(e, b) == [e EXCEPT !.export = b]

\* CommandLineEntry overrides set_value with a no-op
set_value(e, value, pos) ==
    IF e.cls = "CommandLineEntry" THEN e
    ELSE [e EXCEPT !.value = value, !.pos = pos]

append_recursive(e, expr) == [e EXCEPT !.appends = Append(@, expr)]

---------------------------------------------------------------------------
(* Evaluation. *)

RECURSIVE JoinSp(_)
JoinSp(strs) ==
    IF Len(strs) = 0 THEN <<>>
    ELSE IF Len(strs) = 1 THEN strs[1]
    ELSE strs[1] \o SP \o JoinSp(Tail(strs))

\* SymbolTable.variables
variables(sym) ==
    JoinSp(SelectSeq([i \in 1..Len(NameOrder) |->
                         IF NameOrder[i] \in DOMAIN sym
                         THEN NameChars(NameOrder[i]) ELSE <<>>],
                     LAMBDA s : s # <<>>))

\* Results of an evaluation: the table's entries afterwards (the reentrancy
\* counters are the only thing an evaluation changes), whether MakeError was
\* raised, and the string returned.
Ok(sym, val) == [sym |-> sym, err |-> FALSE, val |-> val]
Raise(sym) == [sym |-> sym, err |-> TRUE, val |-> <<>>]

RECURSIVE EvalEntry(_, _), EvalExpr(_, _, _), EvalList(_, _, _)

\* Expression.eval: the concatenation of the children's values, left to
\* right; Literal.eval is its text, VarRef.eval fetches the named variable.
EvalExpr(sym, expr, i) ==
    IF i > Len(expr) THEN Ok(sym, <<>>)
    ELSE LET tok == expr[i]
             r1 == IF tok.t = "Literal" THEN Ok(sym, tok.s)
                   ELSE IF tok.n \in DOMAIN sym THEN EvalEntry(sym, tok.n)
                   ELSE Ok(sym, <<>>)
         IN  IF r1.err THEN r1
             ELSE LET r2 == EvalExpr(r1.sym, expr, i + 1)
                  IN  IF r2.err THEN r2 ELSE Ok(r2.sym, r1.val \o r2.val)

\* the list [value.eval()] + [t.eval() for t in appends] of Entry.eval
EvalList(sym, exprs, i) ==
    IF i > Len(exprs) THEN Ok(sym, <<>>)
    ELSE LET r1 == EvalExpr(sym, exprs[i], 1)
         IN  IF r1.err THEN r1
             ELSE LET r2 == EvalList(r1.sym, exprs, i + 1)
                  IN  IF r2.err THEN r2 ELSE Ok(r2.sym, <<r1.val>> \o r2.val)

\* Entry.eval and CallbackEntry.eval
EvalEntry(sym, n) ==
    LET e == sym[n]
    IN  IF e.cls = "CallbackEntry" THEN Ok(sym, variables(sym))
        ELSE IF e.value.k = "Symbol" THEN
            IF e.loop > 0 THEN Raise(sym)
            ELSE LET r == EvalList([sym EXCEPT ![n].loop = @ + 1],
                                   <<e.value.sym>> \o e.appends, 1)
                 IN  IF r.err THEN r
                     ELSE Ok([r.sym EXCEPT ![n].loop = @ - 1], JoinSp(r.val))
        ELSE Ok(sym, e.value.str)

---------------------------------------------------------------------------
(* The symbol table.  A table value t holds the fields of a SymbolTable:   *)
(* symbols and stack are functions whose domains are the dicts' key sets.  *)
(* An operation yields the table afterwards and the exception it raised.   *)

Tab(sym, stk, edv, clf) ==
    [symbols |-> sym, stack |-> stk, export_default_value |-> edv,
     command_line_flag |-> clf]

Put(f, k, v) == [x \in DOMAIN f \cup {k} |-> IF x = k THEN v ELSE f[x]]
Del(f, k) == [x \in DOMAIN f \ {k} |-> f[x]]

Done(t) == [t |-> t, raised |-> "none"]
Fail(t, exc) == [t |-> t, raised |-> exc]

_add_entry(t, n, e) == [t EXCEPT !.symbols = Put(@, n, e)]

\* add whose file entry keeps the export bit of the entry it replaces
add_keep_export(t, n, value, pos) ==
    IF t.command_line_flag
    THEN Done(_add_entry(t, n, CommandLineEntry(value)))
    ELSE IF n \in DOMAIN t.symbols /\ t.symbols[n].cls = "CommandLineEntry"
    THEN Done(t)
    ELSE Done(_add_entry(t, n, set_export(FileEntry(value, pos),
                                          IF n \in DOMAIN t.symbols
                                          THEN t.symbols[n].export
                                          ELSE t.export_default_value)))

\* add without the command-line check: a file assignment replaces the entry
add_no_cmdline_check(t, n, value, pos) ==
    IF t.command_line_flag
    THEN Done(_add_entry(t, n, CommandLineEntry(value)))
    ELSE Done(_add_entry(t, n, set_export(FileEntry(value, pos),
                                          t.export_default_value)))

\* add that lets an environment entry win over a file assignment
add_env_wins(t, n, value, pos) ==
    IF t.command_line_flag
    THEN Done(_add_entry(t, n, CommandLineEntry(value)))
    ELSE IF n \in DOMAIN t.symbols
            /\ t.symbols[n].cls \in {"CommandLineEntry", "EnvVarEntry"}
    THEN Done(t)
    ELSE Done(_add_entry(t, n, set_export(FileEntry(value, pos),
                                          t.export_default_value)))

add(t, n, value, pos) ==
    IF t.command_line_flag
    THEN Done(_add_entry(t, n, CommandLineEntry(value)))
    ELSE IF n \in DOMAIN t.symbols /\ t.symbols[n].cls = "CommandLineEntry"
    THEN Done(t)
    ELSE Done(_add_entry(t, n, set_export(FileEntry(value, pos),
                                          t.export_default_value)))

add_automatic(t, n, value, pos) == Done(_add_entry(t, n, AutomaticEntry(value, pos)))

\* maybe_add that takes an environment entry for an undefined name
maybe_add_env_absent(t, n, value, pos) ==
    IF n \in DOMAIN t.symbols /\ t.symbols[n].cls # "EnvVarEntry"
    THEN Done(t) ELSE add(t, n, value, pos)

maybe_add(t, n, value, pos) ==
    IF n \in DOMAIN t.symbols THEN Done(t) ELSE add(t, n, value, pos)

\* fetch that defines the name it did not find
fetch_defining(t, key) ==
    IF key \in DOMAIN t.symbols
    THEN LET r == EvalEntry(t.symbols, key)
         IN  [t |-> [t EXCEPT !.symbols = r.sym],
              raised |-> IF r.err THEN "MakeError" ELSE "none",
              ret |-> r.val]
    ELSE [t |-> _add_entry(t, key, FileEntry(StrVal(<<>>), NoPos)),
          raised |-> "none", ret |-> <<>>]

\* fetch of a plain variable name: the value, or "" when the name is absent
fetch(t, key) ==
    IF key \in DOMAIN t.symbols
    THEN LET r == EvalEntry(t.symbols, key)
         IN  [t |-> [t EXCEPT !.symbols = r.sym],
              raised |-> IF r.err THEN "MakeError" ELSE "none",
              ret |-> r.val]
    ELSE [t |-> t, raised |-> "none", ret |-> <<>>]

\* str.index: the first position of c in s, 0 standing for ValueError
index(s, c) ==
    IF \E i \in 1..Len(s) : s[i] = c
    THEN CHOOSE i \in 1..Len(s) : s[i] = c /\ \A j \in 1..(i - 1) : s[j] # c
    ELSE 0

\* str.split(): the maximal runs of non-blank characters
RECURSIVE split(_)
split(s) ==
    IF Len(s) = 0 THEN <<>>
    ELSE IF s[1] = " " THEN split(Tail(s))
    ELSE LET k == index(s, " ")
         IN  IF k = 0 THEN <<s>>
             ELSE <<SubSeq(s, 1, k - 1)>> \o split(SubSeq(s, k + 1, Len(s)))

endswith(s, pat) ==
    Len(pat) <= Len(s) /\ SubSeq(s, Len(s) - Len(pat) + 1, Len(s)) = pat

\* the slice s[:-k]; -0 is 0, so s[:-0] is the empty string
SliceToMinus(s, k) == IF k = 0 THEN <<>> ELSE SubSeq(s, 1, Len(s) - k)

maybe_replace(s, pat1, pat2) ==
    IF endswith(s, pat1) THEN SliceToMinus(s, Len(pat1)) \o pat2 ELSE s

\* the key VAR:PAT1=PAT2 split in three; ok is FALSE where the code raises
\* ValueError
_parse_abbrev_patsubst(key) ==
    LET colon_pos == index(key, ":")
        equal_pos == index(key, "=")
    IN  IF colon_pos = 0 \/ equal_pos = 0 \/ colon_pos > equal_pos
        THEN [ok |-> FALSE, varname |-> <<>>, pat1 |-> <<>>, pat2 |-> <<>>]
        ELSE [ok |-> TRUE,
              varname |-> SubSeq(key, 1, colon_pos - 1),
              pat1 |-> SubSeq(key, colon_pos + 1, equal_pos - 1),
              pat2 |-> SubSeq(key, equal_pos + 1, Len(key))]

\* the variable a key names, "?" standing for the keys of no variable
NameOf(key) ==
    IF \E n \in Names : NameChars(n) = key
    THEN CHOOSE n \in Names : NameChars(n) = key
    ELSE "?"

_eval_abbrev_patsubst(t, key) ==
    LET k == _parse_abbrev_patsubst(key)
    IN  IF ~k.ok THEN [t |-> t, raised |-> "ValueError", ret |-> <<>>]
        ELSE IF Len(k.varname) = 0
        THEN [t |-> t, raised |-> "AssertionError", ret |-> <<>>]
        ELSE LET f == fetch(t, NameOf(k.varname))
                 w == split(f.ret)
             IN  IF f.raised # "none" THEN f
                 ELSE [t |-> f.t, raised |-> "none",
                       ret |-> JoinSp([i \in 1..Len(w) |->
                                         maybe_replace(w[i], k.pat1, k.pat2)])]

\* fetch of a key given as text: a substitution reference, or else a name
fetch_key(t, key) ==
    IF Len(key) = 0 THEN [t |-> t, raised |-> "AssertionError", ret |-> <<>>]
    ELSE LET r == _eval_abbrev_patsubst(t, key)
         IN  IF r.raised = "ValueError" THEN fetch(t, NameOf(key)) ELSE r

\* the text of the reference $(n:pat1=pat2)
SubstKey(n, pat1, pat2) == NameChars(n) \o <<":">> \o pat1 \o <<"=">> \o pat2

\* append that expands the expression when it is appended to a recursive
\* variable
append_eager(t, n, expr, pos) ==
    IF n \notin DOMAIN t.symbols THEN add(t, n, SymVal(expr), pos)
    ELSE LET entry == t.symbols[n]
             r == EvalExpr(t.symbols, expr, 1)
         IN  IF entry.value.k = "Symbol"
             THEN Done([t EXCEPT !.symbols[n] =
                           append_recursive(entry, <<Lit(r.val)>>)])
             ELSE IF entry.value.k = "None"
             THEN Fail(t, "TypeError")
             ELSE IF r.err
                  THEN Fail([t EXCEPT !.symbols = r.sym], "MakeError")
                  ELSE Done([t EXCEPT !.symbols =
                               [r.sym EXCEPT ![n] =
                                  set_value(r.sym[n],
                                            StrVal(entry.value.str \o SP \o r.val),
                                            pos)]])

\* append that joins a string and the appended value without the space
append_no_space(t, n, expr, pos) ==
    IF n \notin DOMAIN t.symbols THEN add(t, n, SymVal(expr), pos)
    ELSE LET entry == t.symbols[n]
             r == EvalExpr(t.symbols, expr, 1)
         IN  IF entry.value.k = "Symbol"
             THEN Done([t EXCEPT !.symbols[n] = append_recursive(entry, expr)])
             ELSE IF entry.value.k = "None"
             THEN Fail(t, "TypeError")
             ELSE IF r.err
                  THEN Fail([t EXCEPT !.symbols = r.sym], "MakeError")
                  ELSE Done([t EXCEPT !.symbols =
                               [r.sym EXCEPT ![n] =
                                  set_value(r.sym[n],
                                            StrVal(entry.value.str \o r.val),
                                            pos)]])

append(t, n, expr, pos) ==
    IF n \notin DOMAIN t.symbols THEN add(t, n, SymVal(expr), pos)
    ELSE LET entry == t.symbols[n]
         IN  IF entry.value.k = "Symbol"
             THEN Done([t EXCEPT !.symbols[n] = append_recursive(entry, expr)])
             ELSE IF entry.value.k = "None"
             THEN Fail(t, "TypeError")
             ELSE LET r == EvalExpr(t.symbols, expr, 1)
                  IN  IF r.err
                      THEN Fail([t EXCEPT !.symbols = r.sym], "MakeError")
                      ELSE Done([t EXCEPT !.symbols =
                                   [r.sym EXCEPT ![n] =
                                      set_value(r.sym[n],
                                                StrVal(entry.value.str \o SP \o r.val),
                                                pos)]])

push(t, n) ==
    IF n \notin DOMAIN t.symbols THEN Done(t)
    ELSE Done([t EXCEPT !.symbols = Del(@, n),
                        !.stack = Put(@, n, IF n \in DOMAIN @
                                            THEN Append(@[n], t.symbols[n])
                                            ELSE <<t.symbols[n]>>)])

pop(t, n) ==
    IF n \notin DOMAIN t.stack
    THEN IF n \in DOMAIN t.symbols
         THEN Done([t EXCEPT !.symbols = Del(@, n)])
         ELSE Fail(t, "KeyError")
    ELSE IF Len(t.stack[n]) = 0 THEN Fail(t, "IndexError")
    ELSE LET d == t.stack[n]
         IN  Done([t EXCEPT !.stack[n] = SubSeq(d, 1, Len(d) - 1),
                            !.symbols = Put(@, n, d[Len(d)])])

origin(t, n) ==
    IF n \in DOMAIN t.symbols THEN entry_origin(t.symbols[n]) ELSE "undefined"

\* flavor tests isinstance(value, Symbol) on the Entry it read from symbols;
\* an Entry is never a Symbol
flavor(t, n) ==
    IF n \notin DOMAIN t.symbols THEN "undefined"
    ELSE LET value == t.symbols[n]
         IN  IF value.cls = "Symbol" THEN "recursive"
             ELSE IF entry_origin(value) = "environment" THEN "recursive"
             ELSE "simple"

\* Symbol.makefile: the makefile text of an expression tree
RECURSIVE makefile(_)
makefile(expr) ==
    IF Len(expr) = 0 THEN <<>>
    ELSE (IF expr[1].t = "Literal" THEN expr[1].s
          ELSE <<"$", "(">> \o NameChars(expr[1].n) \o <<")">>)
         \o makefile(Tail(expr))

\* value returns a string, or None for a missing name and for a callback
value(t, n) ==
    IF n \notin DOMAIN t.symbols THEN [t |-> t, k |-> "None", ret |-> <<>>]
    ELSE LET v == t.symbols[n].value
         IN  IF v.k = "Symbol" THEN [t |-> t, k |-> "str", ret |-> makefile(v.sym)]
             ELSE [t |-> t, k |-> v.k, ret |-> v.str]

is_defined(t, n) == n \in DOMAIN t.symbols

undefine(t, n) ==
    IF n \in DOMAIN t.symbols THEN Done([t EXCEPT !.symbols = Del(@, n)])
    ELSE Done(t)

export_start(t) == [t EXCEPT !.export_default_value = TRUE]
export_stop(t) == [t EXCEPT !.export_default_value = FALSE]

_export_all(t) ==
    export_start([t EXCEPT !.symbols =
        [n \in DOMAIN @ |-> IF never_export(@[n]) THEN @[n]
                            ELSE set_export(@[n], TRUE)]])

_unexport_all(t) ==
    export_stop([t EXCEPT !.symbols =
        [n \in DOMAIN @ |-> IF never_export(@[n]) THEN @[n]
                            ELSE set_export(@[n], FALSE)]])

\* export(name) and unexport(name)
export(t, n) ==
    IF n \in DOMAIN t.symbols
    THEN Done([t EXCEPT !.symbols[n] = set_export(@, TRUE)])
    ELSE Done(t)

unexport(t, n) ==
    IF n \in DOMAIN t.symbols
    THEN Done([t EXCEPT !.symbols[n] = set_export(@, FALSE)])
    ELSE Done(t)

\* the names get_exports returns
exported_names(t) == {n \in DOMAIN t.symbols : t.symbols[n].export}

command_line_start(t) == [t EXCEPT !.command_line_flag = TRUE]
command_line_stop(t) == [t EXCEPT !.command_line_flag = FALSE]

---------------------------------------------------------------------------
(* The statement tokenizer (src/pymake.py).  A scanner is a cursor idx into *)
(* the characters data, with the stack of cursors saved by push_state; the  *)
(* position of a character is its index in data.  A tokenizer yields the    *)
(* scanner afterwards, the exception it raised and the nodes it returned.   *)

whitespace == {" ", "\t"}
eol == {"\r", "\n"}
assignment_operators ==
    {<<"=">>, <<"?", "=">>, <<":", "=">>, <<":", ":", "=">>, <<"+", "=">>,
     <<"!", "=">>}
rule_operators == {<<":">>, <<":", ":">>}

\* the built-in function names that the characters of the inputs can spell
_classes == {<<"i", "f">>, <<"o", "r">>}

ScannerIterator(data) == [data |-> data, idx |-> 1, stack |-> <<>>]
exhausted(sc) == sc.idx > Len(sc.data)
next(sc) == [sc EXCEPT !.idx = @ + 1]
\* pushback that goes back to the first item
pushback_to_start(sc) == [sc EXCEPT !.idx = 1]
pushback(sc) == [sc EXCEPT !.idx = @ - 1]
lookahead(sc) == sc.data[sc.idx]
remain(sc) == SubSeq(sc.data, sc.idx, Len(sc.data))
push_state(sc) == [sc EXCEPT !.stack = Append(@, sc.idx)]
\* pop_state that drops the saved cursor without going back to it
pop_state_no_rewind(sc) == [sc EXCEPT !.stack = SubSeq(@, 1, Len(@) - 1)]

\* pop_state that goes back to the oldest saved cursor
pop_state_oldest(sc) ==
    [sc EXCEPT !.idx = sc.stack[1], !.stack = SubSeq(@, 1, Len(@) - 1)]

pop_state(sc) ==
    [sc EXCEPT !.idx = sc.stack[Len(sc.stack)],
               !.stack = SubSeq(@, 1, Len(@) - 1)]

\* lstrip: the cursor moves over the white space it stands on
RECURSIVE lstrip(_)
lstrip(sc) ==
    IF ~exhausted(sc) /\ lookahead(sc) \in {" ", "\t"} THEN lstrip(next(sc)) ELSE sc

\* eat(prefix): the cursor moves over prefix when the unconsumed items start
\* with it
can_eat(sc, prefix) ==
    /\ Len(remain(sc)) >= Len(prefix)
    /\ SubSeq(remain(sc), 1, Len(prefix)) = prefix
eat(sc, prefix) == [sc EXCEPT !.idx = @ + Len(prefix)]

RECURSIVE rstrip(_)
rstrip(s) ==
    IF Len(s) > 0 /\ s[Len(s)] \in whitespace
    THEN rstrip(SubSeq(s, 1, Len(s) - 1)) ELSE s

\* the nodes of the symbol tree: a string and a list of children
Node(t, str, children) == [t |-> t, s |-> str, c |-> children]
Literal(str) == Node("Literal", str, <<>>)
VarRef(token_list) == Node("VarRef", <<>>, token_list)
Function(fname, token_list) == Node("Function", fname, token_list)
Expression(token_list) == Node("Expression", <<>>, token_list)
AssignOp(str) == Node("AssignOp", str, <<>>)
RuleOp(str) == Node("RuleOp", str, <<>>)
PrerequisiteList(prereq_list) == Node("PrerequisiteList", <<>>, prereq_list)
AssignmentExpression(statement) == Node("AssignmentExpression", <<>>, statement)
RuleExpression(statement) == Node("RuleExpression", <<>>, statement)
None == Node("None", <<>>, <<>>)

\* the frame of a tokenizer loop: its local variables, and once it is done
\* the exception raised or the nodes returned
Frame(sc, state, token, token_list) ==
    [done |-> FALSE, raised |-> "none", ret |-> <<>>, sc |-> sc,
     state |-> state, token |-> token, token_list |-> token_list,
     prereq_list |-> <<>>, pos |-> 0]
Return(sc, ret) ==
    [done |-> TRUE, raised |-> "none", ret |-> ret, sc |-> sc,
     state |-> "", token |-> <<>>, token_list |-> <<>>, prereq_list |-> <<>>,
     pos |-> 0]
Throw(sc, exc) ==
    [done |-> TRUE, raised |-> exc, ret |-> <<>>, sc |-> sc,
     state |-> "", token |-> <<>>, token_list |-> <<>>, prereq_list |-> <<>>,
     pos |-> 0]

\* raise exc(pos=vchar.pos): vchar is the character the loop read last, and
\* the position of a character is its index in the line
ThrowAt(sc, exc) == [Throw(sc, exc) EXCEPT !.pos = sc.idx - 1]

\* token_list with Literal(token) appended when the token is not empty
WithToken(token_list, token) ==
    IF Len(token) > 0 THEN Append(token_list, Literal(token)) ELSE token_list

\* comment: reads the '#' and eats the characters up to and including the
\* end of line
RECURSIVE eat_comment(_)
eat_comment(sc) ==
    IF exhausted(sc) THEN sc
    ELSE IF lookahead(sc) \in eol THEN next(sc)
    ELSE eat_comment(next(sc))

comment(sc) ==
    IF exhausted(sc) THEN Return(sc, <<>>)
    ELSE IF lookahead(sc) = "#" THEN Return(eat_comment(next(sc)), <<>>)
    ELSE Throw(next(sc), "ParseError")

\* split_function_call: the text before the first blank, when the text does
\* not start with a blank
split_function_call(str) ==
    IF \E i \in 1..Len(str) : str[i] \in whitespace
    THEN LET k == CHOOSE i \in 1..Len(str) :
                     /\ str[i] \in whitespace
                     /\ \A j \in 1..(i - 1) : str[j] \notin whitespace
         IN  IF k = 1 THEN [fname |-> str, rest |-> <<>>]
             ELSE [fname |-> SubSeq(str, 1, k - 1),
                   rest |-> SubSeq(str, k + 1, Len(str))]
    ELSE [fname |-> str, rest |-> <<>>]

\* make_function: ok is FALSE where the code raises KeyError; an empty
\* list raises IndexError and a first token without a string TypeError
make_function(arglist) ==
    IF Len(arglist) = 0 THEN [ok |-> FALSE, raised |-> "IndexError", ret |-> None]
    ELSE IF arglist[1].t # "Literal"
    THEN [ok |-> FALSE, raised |-> "TypeError", ret |-> None]
    ELSE LET sp == split_function_call(arglist[1].s)
         IN  IF sp.fname \notin _classes
             THEN [ok |-> FALSE, raised |-> "KeyError", ret |-> None]
             ELSE [ok |-> TRUE, raised |-> "none",
                   ret |-> Function(sp.fname,
                                    (IF Len(sp.rest) > 0 THEN <<Literal(sp.rest)>>
                                     ELSE <<>>) \o Tail(arglist))]

RECURSIVE VarRefLoop(_)

tokenize_variable_ref(sc) == VarRefLoop(Frame(sc, "start", <<>>, <<>>))

\* state_start of tokenize_variable_ref
VarRef_start(f, c) ==
    IF c = "$" THEN [f EXCEPT !.state = "dollar"] ELSE ThrowAt(f.sc, "ParseError")

\* state_dollar of tokenize_variable_ref
VarRef_dollar(f, c) ==
    IF c \in {"(", "{"} THEN [f EXCEPT !.state = "in_var_ref"]
    ELSE IF c = "$" THEN [f EXCEPT !.token = Append(@, c)]
    ELSE IF c \notin whitespace
    THEN Return(f.sc, <<VarRef(Append(f.token_list, Literal(Append(f.token, c))))>>)
    ELSE Throw(f.sc, "AssertionError")

\* the closing character in state_in_var_ref
VarRef_close(f, c) ==
    LET token_list == WithToken(f.token_list, f.token)
        fn == make_function(token_list)
    IN  IF fn.ok THEN Return(f.sc, <<fn.ret>>)
        ELSE IF fn.raised = "KeyError" THEN Return(f.sc, <<VarRef(token_list)>>)
        ELSE Throw(f.sc, fn.raised)

\* state_in_var_ref of tokenize_variable_ref; a lookahead past the end of
\* the data fails
VarRef_in_var_ref(f, c) ==
    IF c \in {")", "}"} THEN VarRef_close(f, c)
    ELSE IF c = "$"
    THEN IF exhausted(f.sc) THEN Throw(f.sc, "LookaheadError")
         ELSE IF lookahead(f.sc) = "$"
         THEN [f EXCEPT !.token = Append(@, c), !.sc = next(@)]
         ELSE LET r == tokenize_variable_ref(pushback(f.sc))
              IN  IF r.raised # "none" THEN r
                  ELSE [f EXCEPT !.token_list = WithToken(@, f.token) \o r.ret,
                                 !.token = <<>>, !.sc = r.sc]
    ELSE [f EXCEPT !.token = Append(@, c)]

VarRefLoop(f) ==
    IF f.done THEN f
    ELSE IF exhausted(f.sc) THEN ThrowAt(f.sc, "ParseError")
    ELSE LET c == lookahead(f.sc)
             g == [f EXCEPT !.sc = next(@)]
         IN  VarRefLoop(CASE f.state = "start" -> VarRef_start(g, c)
                          [] f.state = "dollar" -> VarRef_dollar(g, c)
                          [] f.state = "in_var_ref" -> VarRef_in_var_ref(g, c))

\* state_dollar that keeps both characters of "$$"
Dollar_keep_both(f, c, back) ==
    IF c = "$" THEN [f EXCEPT !.token = @ \o <<"$", "$">>, !.state = back]
    ELSE LET r == tokenize_variable_ref(pushback(pushback(f.sc)))
         IN  IF r.raised # "none" THEN r
             ELSE [f EXCEPT !.token_list = WithToken(@, f.token) \o r.ret,
                            !.token = <<>>, !.sc = r.sc, !.state = back]

\* the branch of state_dollar shared by the tokenizers: "$$" is a literal
\* "$", anything else is handed to tokenize_variable_ref
Dollar(f, c, back) ==
    IF c = "$" THEN [f EXCEPT !.token = Append(@, c), !.state = back]
    ELSE LET r == tokenize_variable_ref(pushback(pushback(f.sc)))
         IN  IF r.raised # "none" THEN r
             ELSE [f EXCEPT !.token_list = WithToken(@, f.token) \o r.ret,
                            !.token = <<>>, !.sc = r.sc, !.state = back]

\* after the loop of tokenize_statement_LHS
LHS_end(f) ==
    IF f.state = "colon"
    THEN IF Len(f.token_list) = 0 THEN Throw(f.sc, "AssertionError")
         ELSE Return(f.sc, <<Expression(f.token_list), RuleOp(<<":">>)>>)
    ELSE IF f.state = "colon_colon"
    THEN IF Len(f.token_list) = 0 THEN Throw(f.sc, "AssertionError")
         ELSE Return(f.sc, <<Expression(f.token_list), RuleOp(<<":", ":">>)>>)
    ELSE IF f.state = "in_word" THEN Return(f.sc, <<Expression(f.token_list)>>)
    ELSE Throw(f.sc, "AssertionError")

LHS_start(f, c) ==
    IF c \in whitespace THEN f
    ELSE IF c = ":" THEN [f EXCEPT !.state = "colon", !.token = Append(@, c)]
    ELSE [f EXCEPT !.sc = pushback(@), !.state = "in_word"]

LHS_in_word(f, c, separators) ==
    IF c = "\\" THEN [f EXCEPT !.state = "backslash", !.token = Append(@, c)]
    ELSE IF c \in separators
    THEN [f EXCEPT !.token_list = WithToken(@, f.token), !.token = <<>>,
                   !.state = "start"]
    ELSE IF c = "$" THEN [f EXCEPT !.state = "dollar"]
    ELSE IF c = "#"
    THEN [f EXCEPT !.token_list = WithToken(@, f.token),
                   !.sc = comment(pushback(@)).sc]
    ELSE IF c = ":"
    THEN [f EXCEPT !.token_list = WithToken(@, rstrip(f.token)),
                   !.token = <<c>>, !.state = "colon"]
    ELSE IF c \in {"?", "+", "!"}
    THEN IF exhausted(f.sc) THEN Throw(f.sc, "LookaheadError")
         ELSE IF lookahead(f.sc) = "="
         THEN Return(next(f.sc),
                     <<Expression(Append(f.token_list, Literal(rstrip(f.token)))),
                       AssignOp(<<c, "=">>)>>)
         ELSE [f EXCEPT !.token = Append(@, c)]
    ELSE IF c = "="
    THEN Return(f.sc, <<Expression(WithToken(f.token_list, rstrip(f.token))),
                        AssignOp(<<c>>)>>)
    ELSE IF c \in eol
    THEN LHS_end([f EXCEPT !.token_list = WithToken(@, f.token)])
    ELSE [f EXCEPT !.token = Append(@, c)]

LHS_backslash(f, c) ==
    IF c \in eol THEN Throw(f.sc, "AssertionError")
    ELSE [f EXCEPT !.token = Append(@, c), !.state = "in_word"]

\* state_colon that takes every ':' for a rule operator
LHS_colon_always_rule(f, c) ==
    IF c = ":" THEN [f EXCEPT !.state = "colon_colon", !.token = Append(@, c)]
    ELSE Return(pushback(f.sc), <<Expression(f.token_list), RuleOp(f.token)>>)

LHS_colon(f, c) ==
    IF c = ":" THEN [f EXCEPT !.state = "colon_colon", !.token = Append(@, c)]
    ELSE IF c = "="
    THEN Return(f.sc, <<Expression(f.token_list), AssignOp(Append(f.token, c))>>)
    ELSE Return(pushback(f.sc), <<Expression(f.token_list), RuleOp(f.token)>>)

LHS_colon_colon(f, c) ==
    IF c = "="
    THEN Return(f.sc, <<Expression(f.token_list), AssignOp(<<":", ":", "=">>)>>)
    ELSE Return(pushback(f.sc), <<Expression(f.token_list), RuleOp(<<":", ":">>)>>)

RECURSIVE LHSLoop(_, _)
LHSLoop(f, separators) ==
    IF f.done THEN f
    ELSE IF exhausted(f.sc) THEN LHS_end(f)
    ELSE LET c == lookahead(f.sc)
             g == [f EXCEPT !.sc = next(@)]
         IN  LHSLoop(CASE f.state = "start" -> LHS_start(g, c)
                       [] f.state = "in_word" -> LHS_in_word(g, c, separators)
                       [] f.state = "dollar" -> Dollar(g, c, "in_word")
                       [] f.state = "backslash" -> LHS_backslash(g, c)
                       [] f.state = "colon" -> LHS_colon(g, c)
                       [] f.state = "colon_colon" -> LHS_colon_colon(g, c),
                     separators)

tokenize_statement_LHS(sc, separators) ==
    LHSLoop(Frame(sc, "start", <<>>, <<>>), separators)

\* save_prereq, after the token so far was added to token_list
SavePrereq(f, token_list) ==
    [f EXCEPT !.prereq_list = IF Len(token_list) > 0
                              THEN Append(@, Expression(token_list)) ELSE @,
              !.token_list = <<>>]

RHS_start(f, c) ==
    IF c = ";" THEN Return(pushback(f.sc), <<PrerequisiteList(f.prereq_list)>>)
    ELSE IF c \in whitespace THEN [f EXCEPT !.state = "whitespace"]
    ELSE [f EXCEPT !.sc = pushback(@), !.state = "word"]

RHS_whitespace(f, c) ==
    IF c \notin whitespace THEN [f EXCEPT !.sc = pushback(@), !.state = "start"]
    ELSE f

\* the branches of state_word that end the prerequisites: '#' and ';' save
\* the prerequisite only when a token is pending, the end of line always
RHS_finish(f, c) ==
    LET sc == IF c = "#" THEN comment(pushback(f.sc)).sc
              ELSE IF c = ";" THEN pushback(f.sc) ELSE f.sc
        g == IF c \in eol \/ Len(f.token) > 0
             THEN SavePrereq(f, WithToken(f.token_list, f.token)) ELSE f
    IN  Return(sc, <<PrerequisiteList(g.prereq_list)>>)

RHS_word(f, c) ==
    IF c \in whitespace
    THEN [SavePrereq(f, WithToken(f.token_list, f.token))
            EXCEPT !.token = <<>>, !.state = "whitespace"]
    ELSE IF c = "\\" THEN [f EXCEPT !.state = "backslash"]
    ELSE IF c = ":" THEN [f EXCEPT !.state = "colon"]
    ELSE IF c = "|" THEN Throw(f.sc, "NotImplementedError")
    ELSE IF c \in {"?", "+", "!"}
    THEN IF exhausted(f.sc) THEN Throw(f.sc, "LookaheadError")
         ELSE IF lookahead(f.sc) = "=" THEN Return(f.sc, <<None>>)
         ELSE [f EXCEPT !.token = Append(@, c)]
    ELSE IF c = "=" THEN Return(f.sc, <<None>>)
    ELSE IF c = "#" \/ c = ";" \/ c \in eol THEN RHS_finish(f, c)
    ELSE IF c = "$" THEN [f EXCEPT !.state = "dollar"]
    ELSE [f EXCEPT !.token = Append(@, c)]

\* state_colon that does not look for ':='
RHS_colon_no_assign(f, c) ==
    IF c = ":" THEN [f EXCEPT !.state = "double_colon"]
    ELSE Throw(f.sc, "NotImplementedError")

RHS_colon(f, c) ==
    IF c = ":" THEN [f EXCEPT !.state = "double_colon"]
    ELSE IF c = "=" THEN Return(f.sc, <<None>>)
    ELSE Throw(f.sc, "NotImplementedError")

RHS_double_colon(f, c) ==
    IF c = "=" THEN Return(f.sc, <<None>>)
    ELSE Throw(f.sc, "NotImplementedError")

\* peek_back gives the backslash just read
RHS_backslash(f, c) ==
    IF c \notin eol
    THEN [f EXCEPT !.token = @ \o <<"\\", c>>, !.state = "word"]
    ELSE Throw(f.sc, "AssertionError")

RECURSIVE RHSLoop(_)
RHSLoop(f) ==
    IF f.done THEN f
    ELSE IF exhausted(f.sc) THEN Throw(f.sc, "AssertionError")
    ELSE LET c == lookahead(f.sc)
             g == [f EXCEPT !.sc = next(@)]
         IN  RHSLoop(CASE f.state = "start" -> RHS_start(g, c)
                       [] f.state = "whitespace" -> RHS_whitespace(g, c)
                       [] f.state = "word" -> RHS_word(g, c)
                       [] f.state = "dollar" -> Dollar(g, c, "word")
                       [] f.state = "colon" -> RHS_colon(g, c)
                       [] f.state = "double_colon" -> RHS_double_colon(g, c)
                       [] f.state = "backslash" -> RHS_backslash(g, c))

tokenize_rule_RHS(sc) == RHSLoop(Frame(sc, "start", <<>>, <<>>))

\* after the loop of tokenize_assign_RHS, and at the end of line
AssignRHS_end(f) == Return(f.sc, <<Expression(WithToken(f.token_list, f.token))>>)

AssignRHS_literal(f, c) ==
    IF c = "$" THEN [f EXCEPT !.state = "dollar"]
    ELSE IF c = "#" THEN [f EXCEPT !.sc = comment(pushback(@)).sc]
    ELSE IF c \in eol THEN AssignRHS_end(f)
    ELSE [f EXCEPT !.token = Append(@, c)]

RECURSIVE AssignRHSLoop(_)
AssignRHSLoop(f) ==
    IF f.done THEN f
    ELSE IF exhausted(f.sc) THEN AssignRHS_end(f)
    ELSE LET c == lookahead(f.sc)
             g == [f EXCEPT !.sc = next(@)]
         IN  AssignRHSLoop(
               CASE f.state = "start" ->
                      IF c \in whitespace THEN [g EXCEPT !.state = "whitespace"]
                      ELSE [f EXCEPT !.state = "literal"]
                 [] f.state = "whitespace" ->
                      IF c \notin whitespace THEN [f EXCEPT !.state = "literal"]
                      ELSE g
                 [] f.state = "literal" -> AssignRHS_literal(g, c)
                 [] f.state = "dollar" -> Dollar(g, c, "literal"))

tokenize_assign_RHS(sc) == AssignRHSLoop(Frame(sc, "start", <<>>, <<>>))

\* the assignment a tokenizer returns once tokenize_statement_LHS stopped
\* at an assignment operator
AssignmentFrom(lhs) ==
    LET rhs == tokenize_assign_RHS(lhs.sc)
    IN  IF rhs.raised # "none" THEN rhs
        ELSE Return(rhs.sc, <<AssignmentExpression(lhs.ret \o rhs.ret)>>)

tokenize_rule_prereq_or_assign(sc) ==
    LET rhs == tokenize_rule_RHS(push_state(sc))
    IN  IF rhs.raised # "none" THEN rhs
        ELSE IF rhs.ret[1] = None
        THEN LET lhs == tokenize_statement_LHS(pop_state(rhs.sc), {})
             IN  IF lhs.raised # "none" THEN lhs
                 ELSE IF lhs.ret[Len(lhs.ret)].s \notin assignment_operators
                 THEN Throw(lhs.sc, "AssertionError")
                 ELSE AssignmentFrom(lhs)
        ELSE rhs

tokenize_statement(sc) ==
    LET lhs == tokenize_statement_LHS(push_state(sc), {})
        last_symbol == lhs.ret[Len(lhs.ret)]
    IN  IF lhs.raised # "none" THEN lhs
        ELSE IF last_symbol.t = "RuleOp"
        THEN LET lhs2 == tokenize_statement_LHS(pop_state(lhs.sc), whitespace)
                 rhs == tokenize_rule_prereq_or_assign(lhs2.sc)
             IN  IF lhs2.raised # "none" THEN lhs2
                 ELSE IF rhs.raised # "none" THEN rhs
                 ELSE Return(rhs.sc, <<RuleExpression(lhs2.ret \o rhs.ret)>>)
        ELSE IF last_symbol.t = "AssignOp" THEN AssignmentFrom(lhs)
        ELSE IF Len(remain(lhs.sc)) # 0 \/ Len(lhs.ret) # 1
        THEN Throw(lhs.sc, "AssertionError")
        ELSE Return(lhs.sc, <<lhs.ret[1]>>)

recipe_prefix == "\t"

Recipe(token_list) == Node("Recipe", <<>>, token_list)

\* peek_back: the character before the one read last
peek_back(sc) == sc.data[sc.idx - 2]

\* tokenize_recipe: the text after the ';' or the recipe prefix, up to the
\* end of the line, as Literals and references; "$$" stays "$$"
RECURSIVE RecipeLoop(_)
RecipeLoop(f) ==
    IF f.done THEN f
    ELSE IF exhausted(f.sc)
    THEN IF f.state = "recipe"
         THEN Return(f.sc, <<Recipe(Append(f.token_list, Literal(f.token)))>>)
         ELSE Throw(f.sc, "AssertionError")
    ELSE LET c == lookahead(f.sc)
             g == [f EXCEPT !.sc = next(@)]
         IN  RecipeLoop(
               CASE f.state = "start" ->
                      IF c = ";" \/ c = recipe_prefix
                      THEN [g EXCEPT !.state = "lhs_white"] ELSE g
                 [] f.state = "lhs_white" ->
                      IF c \notin whitespace
                      THEN [g EXCEPT !.sc = pushback(@), !.state = "recipe"]
                      ELSE g
                 [] f.state = "recipe" ->
                      IF c \in eol
                      THEN Return(g.sc, <<Recipe(WithToken(g.token_list, g.token))>>)
                      ELSE IF c = "$" THEN [g EXCEPT !.state = "dollar"]
                      ELSE IF c = "\\" THEN [g EXCEPT !.state = "backslash"]
                      ELSE [g EXCEPT !.token = Append(@, c)]
                 [] f.state = "dollar" ->
                      IF c = "$"
                      THEN [g EXCEPT !.token = @ \o <<peek_back(g.sc), c>>,
                                     !.state = "recipe"]
                      ELSE Dollar(g, c, "recipe")
                 [] f.state = "backslash" ->
                      [g EXCEPT !.token = @ \o <<"\\", c>>, !.state = "recipe"])

tokenize_recipe(sc) == RecipeLoop(Frame(sc, "start", <<>>, <<>>))

\* the concatenation of a list of strings
RECURSIVE Flatten(_)
Flatten(ss) == IF Len(ss) = 0 THEN <<>> ELSE ss[1] \o Flatten(Tail(ss))

\* str.startswith(c) for a one-character prefix, and str.endswith('\\\n')
startswith(line, c) == Len(line) > 0 /\ line[1] = c
endswith_backslash_nl(line) ==
    Len(line) >= 2 /\ line[Len(line) - 1] = "\\" /\ line[Len(line)] = "\n"

\* line.strip(): the line without its leading and trailing white space
RECURSIVE strip(_)
strip(line) ==
    LET white == whitespace \cup eol
    IN  IF Len(line) = 0 THEN line
        ELSE IF line[1] \in white THEN strip(Tail(line))
        ELSE IF line[Len(line)] \in white THEN strip(SubSeq(line, 1, Len(line) - 1))
        ELSE line

\* RecipeVirtualLine: the characters of the physical lines, the backslash
\* and the newline of a continuation kept
RecipeVirtualLine(lines_list) == Flatten(lines_list)

RecipeList(recipe_list) == Node("RecipeList", <<>>, recipe_list)

\* the frame of parse_recipes: the line scanner and the local variables
RecipesFrame(ls, recipe_list) ==
    [done |-> FALSE, raised |-> "none", ret |-> <<>>, ls |-> ls,
     state |-> "start", lines_list |-> <<>>, recipe_list |-> recipe_list]

\* tokenize_recipe on the virtual line of lines_list, its Recipe appended
AddRecipe(f, lines_list) ==
    LET r == tokenize_recipe(ScannerIterator(RecipeVirtualLine(lines_list)))
    IN  IF r.raised # "none" THEN [f EXCEPT !.done = TRUE, !.raised = r.raised]
        ELSE [f EXCEPT !.recipe_list = @ \o r.ret, !.state = "start"]

\* the loop of parse_recipes over the lines of line_scanner
RECURSIVE RecipesLoop(_)
RecipesLoop(f) ==
    IF f.done THEN f
    ELSE IF exhausted(f.ls)
    THEN [f EXCEPT !.done = TRUE, !.ret = <<RecipeList(f.recipe_list)>>]
    ELSE LET line == lookahead(f.ls)
             g == [f EXCEPT !.ls = next(@)]
             line_stripped == strip(line)
         IN  RecipesLoop(
               CASE f.state = "start" ->
                      IF startswith(line, recipe_prefix)
                      THEN IF endswith_backslash_nl(line)
                           THEN [g EXCEPT !.lines_list = <<line>>,
                                          !.state = "recipe_backslash"]
                           ELSE AddRecipe(g, <<line>>)
                      ELSE IF Len(line_stripped) = 0 THEN g
                      ELSE IF startswith(line_stripped, "#")
                      THEN IF endswith_backslash_nl(line)
                           THEN [g EXCEPT !.lines_list = <<line>>,
                                          !.state = "comment_backslash"]
                           ELSE g
                      ELSE [g EXCEPT !.ls = pushback(@), !.done = TRUE,
                                     !.ret = <<RecipeList(f.recipe_list)>>]
                 [] f.state = "comment_backslash" ->
                      [g EXCEPT !.lines_list = Append(@, line),
                                !.state = IF endswith_backslash_nl(line)
                                          THEN @ ELSE "start"]
                 [] f.state = "recipe_backslash" ->
                      IF endswith_backslash_nl(line)
                      THEN [g EXCEPT !.lines_list = Append(@, line)]
                      ELSE AddRecipe(g, Append(f.lines_list, line)))

\* parse_recipes; semicolon_vline is <<>> for None
parse_recipes(ls, semicolon_vline) ==
    IF Len(semicolon_vline) > 0
    THEN LET r == tokenize_recipe(ScannerIterator(semicolon_vline))
         IN  IF r.raised # "none"
             THEN [RecipesFrame(ls, <<>>) EXCEPT !.done = TRUE, !.raised = r.raised]
             ELSE RecipesLoop(RecipesFrame(ls, r.ret))
    ELSE RecipesLoop(RecipesFrame(ls, <<>>))

\* the directives the lines of the model use, out of the set directive
conditional_directive == {<<"i", "f", "e", "q">>, <<"i", "f", "d", "e", "f">>}
directive == {<<"e", "l", "s", "e">>, <<"e", "n", "d", "i", "f">>}
                 \cup conditional_directive

\* the lower-case letters and '-'
directive_chars ==
    {"a", "b", "c", "d", "e", "f", "g", "h", "i", "j", "k", "l", "m", "n", "o",
     "p", "q", "r", "s", "t", "u", "v", "w", "x", "y", "z", "-"}

\* seek_directive after the loop found s in seek: the next character, when
\* there is one, must be white space or the end of the line
SeekFound(sc, str) ==
    IF exhausted(sc) THEN Return(sc, <<Literal(str)>>)
    ELSE IF lookahead(sc) \notin whitespace \cup eol
    THEN Return(pop_state(next(sc)), <<None>>)
    ELSE Return(next(sc), <<Literal(str)>>)

\* the loop of seek_directive; token is the string s
RECURSIVE SeekLoop(_, _)
SeekLoop(f, seek) ==
    IF exhausted(f.sc) THEN Return(pop_state(f.sc), <<None>>)
    ELSE LET c == lookahead(f.sc)
             sc == next(f.sc)
         IN  IF f.state = "whitespace" /\ c \in whitespace
             THEN SeekLoop([f EXCEPT !.sc = sc], seek)
             ELSE IF c \notin directive_chars THEN Return(pop_state(sc), <<None>>)
             ELSE IF Append(f.token, c) \in seek
             THEN SeekFound(sc, Append(f.token, c))
             ELSE SeekLoop([f EXCEPT !.sc = sc, !.state = "char",
                                     !.token = Append(@, c)], seek)

seek_directive(viter, seek) ==
    IF Len(remain(viter)) = 0 THEN Return(viter, <<None>>)
    ELSE LET c == lookahead(viter)
             sc == next(push_state(viter))
         IN  IF c = recipe_prefix THEN Throw(sc, "NotImplementedError")
             ELSE IF c \in whitespace
             THEN SeekLoop(Frame(sc, "whitespace", <<>>, <<>>), seek)
             ELSE SeekLoop(Frame(sc, "char", <<c>>, <<>>), seek)

\* a conditional directive before its expression is parsed: its name and
\* the text that follows it on the line
ConditionalDirective(directive_str, rest) ==
    Node("ConditionalDirective", directive_str, <<Literal(rest)>>)

\* a LineBlock holds virtual lines as they are; a ConditionalBlock holds, in
\* the order they were added, its conditionals, its blocks and the mark of
\* its else
LineBlock(line_list) ==
    Node("LineBlock", <<>>, [i \in 1..Len(line_list) |-> Literal(line_list[i])])
ConditionalBlock(parts) == Node("ConditionalBlock", <<>>, parts)
start_else == Node("Else", <<>>, <<>>)

\* the frame of handle_conditional_directive: the line iterator, the state,
\* line_list and the parts of cond_block
CondFrame(ls, directive_inst) ==
    [done |-> FALSE, raised |-> "none", ret |-> <<>>, ls |-> ls,
     state |-> "if", line_list |-> <<>>, parts |-> <<directive_inst>>]

\* save_block
save_block(f) ==
    [f EXCEPT !.parts = IF Len(f.line_list) > 0
                        THEN Append(@, LineBlock(f.line_list)) ELSE @,
              !.line_list = <<>>]

CondRaise(f, exc) == [f EXCEPT !.done = TRUE, !.raised = exc]

\* an else that is never one too many
too_many_else_never(f) == FALSE

\* the test made at an else line: the block already has its else
too_many_else(f) == f.state = "else"

\* handle_conditional_directive: the loop over the virtual lines, then the
\* test for the missing endif, whose error message names a variable that
\* is not defined
RECURSIVE CondLoop(_)
CondLoop(f) ==
    IF f.done THEN f
    ELSE IF f.state = "endif"
    THEN [f EXCEPT !.done = TRUE, !.ret = <<ConditionalBlock(f.parts)>>]
    ELSE IF exhausted(f.ls) THEN CondRaise(f, "NameError")
    ELSE LET virt_line == lookahead(f.ls)
             g == [f EXCEPT !.ls = next(@)]
             found == seek_directive(ScannerIterator(virt_line), directive)
             directive_str == found.ret[1].s
         IN  IF found.raised # "none" THEN CondRaise(g, found.raised)
             ELSE IF found.ret[1] # None /\ directive_str \in conditional_directive
             THEN LET dir_ == ConditionalDirective(directive_str, remain(found.sc))
                      sub_block == CondLoop(CondFrame(g.ls, dir_))
                  IN  IF sub_block.raised # "none"
                      THEN CondRaise([g EXCEPT !.ls = sub_block.ls], sub_block.raised)
                      ELSE CondLoop([save_block(g) EXCEPT
                                       !.parts = @ \o sub_block.ret,
                                       !.ls = sub_block.ls])
             ELSE IF found.ret[1] # None /\ directive_str = <<"e", "l", "s", "e">>
             THEN IF too_many_else(f) THEN CondRaise(g, "ParseError")
                  ELSE LET more == seek_directive(found.sc, conditional_directive)
                       IN  IF more.raised # "none" THEN CondRaise(g, more.raised)
                           ELSE IF more.ret[1] # None
                           THEN CondRaise(save_block(g), "NotImplementedError")
                           ELSE CondLoop([save_block(g) EXCEPT
                                            !.parts = Append(@, start_else),
                                            !.state = "else"])
             ELSE IF found.ret[1] # None /\ directive_str = <<"e", "n", "d", "i", "f">>
             THEN CondLoop([save_block(g) EXCEPT !.state = "endif"])
             ELSE CondLoop([g EXCEPT !.line_list = Append(@, virt_line)])

handle_conditional_directive(directive_inst, vline_iter) ==
    CondLoop(CondFrame(vline_iter, directive_inst))

\* The expression given to old_parse_ifeq_directive is read item by item:
\* the characters of its Literal tokens one at a time, and each other token
\* as a whole.  The reference "$(v)" is the one token that is not a Literal.
RefItem == "$(v)"
RefToken == VarRef(<<Literal(<<"v">>)>>)

\* kill_trailing_ws and kill_leading_ws hide the white space; a hidden
\* character is not part of the string
RECURSIVE kill_leading_ws(_)
kill_leading_ws(token) ==
    IF Len(token) > 0 /\ token[1] \in whitespace
    THEN kill_leading_ws(Tail(token)) ELSE token
kill_trailing_ws(token) == rstrip(token)

\* verify_close: TRUE when the closing character pairs with the opening one
verify_close(oc, cc) ==
    \/ oc = "(" /\ cc = ")"
    \/ oc = "\"" /\ cc = "\""
    \/ oc = "'" /\ cc = "'"

open_chars == {"(", "'", "\""}
close_chars == {")", "'", "\""}

IfeqFrame(sc) ==
    [done |-> FALSE, raised |-> "none", ret |-> <<>>, sc |-> sc, pos |-> 0,
     state |-> "start", vchar_list |-> <<>>, expr1 |-> <<>>, expr2 |-> <<>>,
     open_vchar |-> ""]

\* the closing character met in state_expr2_start or state_expr2
IfeqClose(f, c) ==
    IF ~verify_close(f.open_vchar, c) THEN Throw(f.sc, "ParseError")
    ELSE [f EXCEPT !.expr2 = WithToken(@, f.vchar_list), !.vchar_list = <<>>,
                   !.state = "closed"]

\* a token that is not a Literal; breakpoint() stops the program
IfeqToken(f, tok) ==
    IF f.state = "expr1"
    THEN [f EXCEPT !.expr1 = Append(WithToken(@, f.vchar_list), tok),
                   !.vchar_list = <<>>]
    ELSE IF f.state \in {"expr2_start", "expr2"}
    THEN IF Len(f.vchar_list) > 0 THEN Throw(f.sc, "breakpoint")
         ELSE [f EXCEPT !.expr2 = Append(@, tok)]
    ELSE Throw(f.sc, "breakpoint")

IfeqChar(f, c) ==
    CASE f.state = "start" ->
           IF c \in open_chars THEN [f EXCEPT !.open_vchar = c, !.state = "expr1"]
           ELSE IF c \in whitespace THEN f
           ELSE Throw(f.sc, "ParseError")
      [] f.state = "expr1" ->
           IF c = ","
           THEN [f EXCEPT !.expr1 = IF Len(f.vchar_list) > 0
                                    THEN Append(@, Literal(kill_trailing_ws(f.vchar_list)))
                                    ELSE @,
                          !.vchar_list = <<>>, !.state = "expr2_start"]
           ELSE [f EXCEPT !.vchar_list = Append(@, c)]
      [] f.state = "expr2_start" ->
           IF c \in close_chars THEN IfeqClose(f, c)
           ELSE IF c \in whitespace THEN f
           ELSE [f EXCEPT !.state = "expr2", !.vchar_list = Append(@, c)]
      [] f.state = "expr2" ->
           IF c \in close_chars THEN IfeqClose(f, c)
           ELSE [f EXCEPT !.vchar_list = Append(@, c)]
      [] f.state = "closed" ->
           IF c \notin whitespace THEN Throw(f.sc, "ParseError") ELSE f

\* old_parse_ifeq_directive up to the two expressions it builds
RECURSIVE IfeqLoop(_)
IfeqLoop(f) ==
    IF f.done THEN f
    ELSE IF exhausted(f.sc)
    THEN Return(f.sc, <<Expression(f.expr1), Expression(f.expr2)>>)
    ELSE LET item == lookahead(f.sc)
             g == [f EXCEPT !.sc = next(@)]
         IN  IfeqLoop(IF item = RefItem THEN IfeqToken(g, RefToken)
                      ELSE IfeqChar(g, item))

old_parse_ifeq_directive(viter) == IfeqLoop(IfeqFrame(viter))

\* the number of arguments a function class declares
num_args(fname) ==
    CASE fname = "sort" -> 1
      [] fname = "filter" -> 2
      [] fname = "subst" -> 3

\* the token list of items: a Literal for each run of characters, RefToken
\* for each reference
RECURSIVE RunLen(_)
RunLen(items) ==
    IF Len(items) = 0 \/ items[1] = RefItem THEN 0 ELSE 1 + RunLen(Tail(items))
RECURSIVE TokensOf(_)
TokensOf(items) ==
    IF Len(items) = 0 THEN <<>>
    ELSE IF items[1] = RefItem THEN <<RefToken>> \o TokensOf(Tail(items))
    ELSE LET n == RunLen(items)
         IN  <<Literal(SubSeq(items, 1, n))>>
             \o TokensOf(SubSeq(items, n + 1, Len(items)))

\* _save_arg: self.args[arg_idx].append(new_arg), and on IndexError
\* self.args.append([new_arg])
save_arg(f, new_arg) ==
    IF f.arg_idx + 1 <= Len(f.args)
    THEN [f EXCEPT !.args[f.arg_idx + 1] = Append(@, new_arg)]
    ELSE [f EXCEPT !.args = Append(@, <<new_arg>>)]

save_lit(f, lit) == IF Len(lit) > 0 THEN save_arg(f, Literal(lit)) ELSE f

\* white space is dropped while arg_idx is 0
eat_whitespace(arg_idx, c) == arg_idx = 0 /\ c \in whitespace

\* the rest of the token stream goes to the last argument
extend_arg(f, new_arg) ==
    IF f.arg_idx + 1 <= Len(f.args)
    THEN [f EXCEPT !.args[f.arg_idx + 1] = @ \o new_arg]
    ELSE [f EXCEPT !.args = Append(@, new_arg)]

\* the characters of one Literal, from the k-th on; stop is TRUE when the
\* rest of the token stream was consumed
RECURSIVE ParseArgsLiteral(_, _, _, _, _, _)
ParseArgsLiteral(f, str, k, lit, rest, n) ==
    IF k > Len(str) THEN [f |-> save_lit(f, lit), stop |-> FALSE]
    ELSE IF str[k] # ","
    THEN ParseArgsLiteral(f, str, k + 1,
                          IF eat_whitespace(f.arg_idx, str[k]) THEN lit
                          ELSE Append(lit, str[k]),
                          rest, n)
    ELSE LET g == [save_lit(f, lit) EXCEPT !.arg_idx = @ + 1]
         IN  IF g.arg_idx + 1 = n
             THEN [f |-> extend_arg(save_lit(g, SubSeq(str, k + 1, Len(str))), rest),
                   stop |-> TRUE]
             ELSE ParseArgsLiteral(g, str, k + 1, <<>>, rest, n)

RECURSIVE ParseArgsLoop(_, _, _, _)
ParseArgsLoop(f, token_list, i, n) ==
    IF i > Len(token_list) THEN f
    ELSE IF token_list[i].t # "Literal"
    THEN ParseArgsLoop(save_arg(f, token_list[i]), token_list, i + 1, n)
    ELSE LET r == ParseArgsLiteral(f, token_list[i].s, 1, <<>>,
                                   SubSeq(token_list, i + 1, Len(token_list)), n)
         IN  IF r.stop THEN r.f ELSE ParseArgsLoop(r.f, token_list, i + 1, n)

\* FunctionWithArguments._parse_args: the list self.args
parse_args(fname, token_list) ==
    ParseArgsLoop([args |-> <<>>, arg_idx |-> 0], token_list, 1, num_args(fname)).args

\* the exceptions of error.py.  The keyword arguments of a raise are a
\* record: keys is the set of the names given, and pos, msg, description and
\* code are their values.  A string made by format() is the sequence of its
\* pieces.
default_msg(cls) ==
    IF cls = "MissingSeparator" THEN "missing separator" ELSE "(no message)"

kwargs_get(kwargs, key, default) ==
    IF key \in kwargs.keys THEN kwargs[key] ELSE default

\* self.msg = kwargs.get("msg") or self.default_msg
msg_from_msg(cls, kwargs) ==
    IF kwargs_get(kwargs, "msg", "") # "" THEN kwargs["msg"] ELSE default_msg(cls)

\* MakeError.__init__
MakeError(cls, kwargs) ==
    LET pos == kwargs_get(kwargs, "pos", <<"missing", <<-1, -1>>>>)
    IN  [cls |-> cls,
         code |-> kwargs_get(kwargs, "code", ""),
         pos |-> pos,
         filename |-> pos[1],
         msg |-> msg_from_msg(cls, kwargs)]

\* the decimal digits of a row or column number
IntStr(n) ==
    IF n < 0 THEN "-" \o <<"0", "1", "2", "3", "4", "5", "6", "7", "8", "9">>[1 - n]
    ELSE <<"0", "1", "2", "3", "4", "5", "6", "7", "8", "9">>[n + 1]

\* "{0}".format of a pair of numbers
PosStr(rc) == <<"(", IntStr(rc[1]), ", ", IntStr(rc[2]), ")">>

\* MakeError.__str__
MakeError_str(e) ==
    <<"*** filename=\"", e.filename, "\" pos=">> \o PosStr(e.pos[2])
    \o <<": ", e.msg>>

---------------------------------------------------------------------------
(* The state machine: one SymbolTable object and the calls made on it;     *)
(* nops counts the calls.  A call that raises keeps what it changed before *)
(* the exception left it.                                                  *)

T == Tab(symbols, stack, export_default_value, command_line_flag)

StepWithin(r, bound) ==
    /\ nops < bound
    /\ symbols' = r.t.symbols
    /\ stack' = r.t.stack
    /\ export_default_value' = r.t.export_default_value
    /\ command_line_flag' = r.t.command_line_flag
    /\ nops' = nops + 1
    /\ UNCHANGED <<vchar_scanner, result, line_scanner>>

Step(r) == StepWithin(r, MaxOps)

\* what a tokenizer call left: the call, the exception, the nodes returned
NoResult == [call |-> "none", raised |-> "none", ret |-> <<>>, pos |-> 0]

\* SymbolTable.__init__ with _init_builtins and _init_envvars
Init ==
    /\ \E env \in SUBSET EnvNames :
          symbols = [n \in {".VARIABLES", "MAKE_VERSION"} \cup env |->
                        IF n = ".VARIABLES" THEN CallbackEntry
                        ELSE IF n = "MAKE_VERSION" THEN DefaultEntry(StrVal(<<"4">>))
                        ELSE EnvVarEntry(StrVal(<<"e">>))]
    /\ stack = <<>>
    /\ export_default_value = FALSE
    /\ command_line_flag = FALSE
    /\ nops = 0
    /\ vchar_scanner = ScannerIterator(<<>>)
    /\ result = NoResult
    /\ line_scanner = ScannerIterator(<<>>)

Add == \E n \in OpNames, v \in ValueInputs, p \in PosInputs :
          Step(add(T, n, v, p))

MaybeAdd == \E n \in OpNames, v \in ValueInputs, p \in PosInputs :
               Step(maybe_add(T, n, v, p))

AppendFits(t, n) ==
    n \in DOMAIN t.symbols =>
        /\ Len(t.symbols[n].appends) <= MaxAppends
        /\ Len(t.symbols[n].value.str) <= MaxStrLen

AppendOp == \E n \in OpNames, e \in ExprInputs, p \in PosInputs :
               LET r == append(T, n, e, p)
               IN  AppendFits(r.t, n) /\ Step(r)

Push == \E n \in OpNames :
           LET r == push(T, n)
           IN  /\ \A m \in DOMAIN r.t.stack : Len(r.t.stack[m]) <= MaxStack
               /\ Step(r)

Pop == \E n \in OpNames : Step(pop(T, n))

Undefine == \E n \in OpNames : Step(undefine(T, n))

Export == \E n \in OpNames : Step(export(T, n))

ExportAll == Step(Done(_export_all(T)))

Unexport == \E n \in OpNames : Step(unexport(T, n))

UnexportAll == Step(Done(_unexport_all(T)))

ExportStart == Step(Done(export_start(T)))

ExportStop == Step(Done(export_stop(T)))

CommandLineStart == Step(Done(command_line_start(T)))

CommandLineStop == Step(Done(command_line_stop(T)))

Fetch == \E n \in OpNames : Step(fetch(T, n))

FetchKey == \E n \in OpNames, pat1 \in PatInputs, pat2 \in PatInputs :
               Step(fetch_key(T, SubstKey(n, pat1, pat2)))

\* get_exports evaluates the exported entries in dict order and stops at the
\* first that raises; any exported entry that raises may be that first one.
GetExports ==
    \/ /\ \A n \in exported_names(T) : fetch(T, n).raised = "none"
       /\ Step(Done(T))
    \/ \E n \in exported_names(T) :
          /\ fetch(T, n).raised # "none"
          /\ Step(fetch(T, n))

Next ==
    \/ Add \/ MaybeAdd \/ AppendOp
    \/ Push \/ Pop \/ Undefine
    \/ Export \/ ExportAll \/ Unexport \/ UnexportAll
    \/ ExportStart \/ ExportStop
    \/ CommandLineStart \/ CommandLineStop
    \/ Fetch \/ FetchKey \/ GetExports

Spec == Init /\ [][Next]_vars

(* Runs of definitions, appends, undefinitions and fetches alone, one call  *)
(* longer.                                                                 *)

EvalAdd == \E n \in EvalNames, v \in ValueInputs, p \in PosInputs :
              StepWithin(add(T, n, v, p), MaxEvalOps)

EvalAppend == \E n \in EvalNames, e \in ExprInputs, p \in PosInputs :
                 LET r == append(T, n, e, p)
                 IN  AppendFits(r.t, n) /\ StepWithin(r, MaxEvalOps)

EvalUndefine == \E n \in EvalNames : StepWithin(undefine(T, n), MaxEvalOps)

EvalFetch == \E n \in EvalNames : StepWithin(fetch(T, n), MaxEvalOps)

NextEval == EvalAdd \/ EvalAppend \/ EvalUndefine \/ EvalFetch

SpecEval == Init /\ [][NextEval]_vars

(* Runs of the tokenizers: a scanner is made over one line of text and one  *)
(* tokenizer is called on it.  No symbol table takes part.                  *)

\* the pieces the lines are made of; a backslash comes with the character it
\* escapes, which is never the end of the line (a virtual line has its
\* continuations folded)
LinePieces ==
    {<<"a">>, <<" ">>, <<" ", "a", " ", "b", " ">>, <<":">>, <<"=">>, <<"?">>,
     <<"#">>, <<";">>, <<"|">>, <<"$", "(">>, <<")">>, <<"$", "$">>,
     <<"\\", " ", "a", " ">>, <<"\\", "=">>, <<"\\", ":">>,
     <<"$", "(", "a", ")">>}

\* the lines: some pieces and the end of the line
LineInputs ==
    {Flatten(ps) \o <<"\n">> :
        ps \in UNION {[1..k -> LinePieces] : k \in 0..MaxPieces}}

\* the references: "$(" or "${" and some characters
RefChars == {"a", "i", "f", " ", "$", "(", ")", "{", "}"}
RefInputs ==
    {<<"$", o>> \o body :
        o \in {"(", "{"},
        body \in UNION {[1..k -> RefChars] : k \in 0..MaxRefLen}}

\* the recipes: a ';' or the recipe prefix and a line
RecipeInputs == {<<p>> \o l : p \in {";", recipe_prefix}, l \in LineInputs}

\* the lines given to seek_directive, and the sets it looks for
DirectivePieces ==
    {<<"e", "l", "s", "e">>, <<"e", "n", "d", "i", "f">>, <<"i", "f", "e", "q">>,
     <<" ">>, <<"\t">>, <<"s">>, <<"(">>, <<"\n">>}
DirectiveInputs ==
    {Flatten(ps) : ps \in UNION {[1..k -> DirectivePieces] : k \in 0..MaxPieces}}
SeekSets == {directive, conditional_directive, {<<"e", "l", "s", "e">>}}

\* the text after ifeq: white space, an opening character, two arguments
\* of characters and references with a comma between them, a closing
\* character, white space
ArgInputs == UNION {[1..k -> {" ", "a", RefItem}] : k \in 0..MaxArgLen}
IfeqInputs ==
    {lead \o <<"(">> \o arg1 \o <<",">> \o arg2 \o <<close>> \o lead :
        lead \in {<<>>, <<" ">>}, arg1 \in ArgInputs, arg2 \in ArgInputs,
        close \in {")", "'"}}

\* a function: its name and the items of its token list
FnNames == {"sort", "filter", "subst"}
FnItems == UNION {[1..k -> {" ", "a", ",", RefItem}] : k \in 0..MaxFnLen}
FnInputs == {<<fname>> \o items : fname \in FnNames, items \in FnItems}

InitTok ==
    /\ symbols = <<>>
    /\ stack = <<>>
    /\ export_default_value = FALSE
    /\ command_line_flag = FALSE
    /\ nops = 0
    /\ \E data \in LineInputs \cup RefInputs \cup RecipeInputs \cup DirectiveInputs
                    \cup IfeqInputs \cup FnInputs :
          vchar_scanner = ScannerIterator(data)
    /\ result = NoResult
    /\ line_scanner = ScannerIterator(<<>>)

\* one call of a tokenizer on the fresh scanner
Called(call, r) ==
    /\ result = NoResult
    /\ vchar_scanner' = r.sc
    /\ result' = [call |-> call, raised |-> r.raised, ret |-> r.ret, pos |-> r.pos]
    /\ UNCHANGED <<symbols, stack, export_default_value, command_line_flag, nops,
                   line_scanner>>

TokenizeStatement ==
    /\ vchar_scanner.data \in LineInputs
    /\ Called("tokenize_statement", tokenize_statement(vchar_scanner))

TokenizeRulePrereqOrAssign ==
    /\ vchar_scanner.data \in LineInputs
    /\ Called("tokenize_rule_prereq_or_assign",
              tokenize_rule_prereq_or_assign(vchar_scanner))

TokenizeVariableRef ==
    /\ vchar_scanner.data \in RefInputs
    /\ Called("tokenize_variable_ref", tokenize_variable_ref(vchar_scanner))

TokenizeRecipe ==
    /\ vchar_scanner.data \in RecipeInputs
    /\ Called("tokenize_recipe", tokenize_recipe(vchar_scanner))

SeekDirective ==
    /\ vchar_scanner.data \in DirectiveInputs
    /\ \E seek \in SeekSets :
          Called("seek_directive", seek_directive(vchar_scanner, seek))

ParseIfeqDirective ==
    /\ vchar_scanner.data \in IfeqInputs
    /\ Called("old_parse_ifeq_directive", old_parse_ifeq_directive(vchar_scanner))

ParseArgs ==
    /\ vchar_scanner.data \in FnInputs
    /\ Called("_parse_args",
              Return(vchar_scanner,
                     parse_args(Head(vchar_scanner.data),
                                TokensOf(Tail(vchar_scanner.data)))))

NextTok ==
    \/ TokenizeStatement
    \/ TokenizeRulePrereqOrAssign
    \/ TokenizeVariableRef
    \/ TokenizeRecipe
    \/ SeekDirective
    \/ ParseIfeqDirective
    \/ ParseArgs

SpecTok == InitTok /\ [][NextTok]_vars

\* The lines that follow a rule: recipes, a recipe that continues, a blank
\* line, comments, a comment that continues, and a line of another kind.
FileLines ==
    {<<"\t", "a", "\n">>, <<"\t", "b", "\n">>, <<"\t", "a", "\\", "\n">>,
     <<"\n">>, <<"#", "\n">>, <<"#", "\\", "\n">>, <<"a", "\n">>}
FileInputs == UNION {[1..k -> FileLines] : k \in 0..MaxLines}

\* The lines that follow a conditional directive: a nested conditional, an
\* else, an else with a conditional, an endif, and body lines: a word, a
\* reference that is not closed, a line that starts with the recipe prefix.
CondLines ==
    {<<"i", "f", "e", "q", "\n">>, <<"e", "l", "s", "e", "\n">>,
     <<"e", "l", "s", "e", " ", "i", "f", "e", "q", "\n">>,
     <<"e", "n", "d", "i", "f", "\n">>,
     <<"a", "\n">>, <<"$", "(", "\n">>, <<"\t", "a", "\n">>}
CondInputs == UNION {[1..k -> CondLines] : k \in 0..MaxCondLines}

\* the recipe after the ';' of the rule line, <<>> when there is none
SemicolonInputs == {<<>>, <<";", "b", "\n">>}

InitLines ==
    /\ symbols = <<>>
    /\ stack = <<>>
    /\ export_default_value = FALSE
    /\ command_line_flag = FALSE
    /\ nops = 0
    /\ result = NoResult
    /\ \E v \in SemicolonInputs, file \in FileInputs \cup CondInputs :
          /\ v # <<>> => file \in FileInputs
          /\ vchar_scanner = ScannerIterator(v)
          /\ line_scanner = ScannerIterator(file)

\* tokenize, once the statement is a rule: parse_recipes on the lines that
\* follow, with the inline recipe the rule line left in its scanner
ParseRecipes ==
    /\ result = NoResult
    /\ line_scanner.data \in FileInputs
    /\ LET r == parse_recipes(line_scanner, vchar_scanner.data)
       IN  /\ line_scanner' = r.ls
           /\ result' = [call |-> "parse_recipes", raised |-> r.raised,
                         ret |-> r.ret, pos |-> 0]
    /\ UNCHANGED <<symbols, stack, export_default_value, command_line_flag, nops,
                   vchar_scanner>>

\* tokenize_directive, once the line is a conditional directive:
\* handle_conditional_directive on the lines that follow
HandleConditionalDirective ==
    /\ result = NoResult
    /\ line_scanner.data \in CondInputs
    /\ vchar_scanner.data = <<>>
    /\ LET r == handle_conditional_directive(
                   ConditionalDirective(<<"i", "f", "e", "q">>, <<>>), line_scanner)
       IN  /\ line_scanner' = r.ls
           /\ result' = [call |-> "handle_conditional_directive",
                         raised |-> r.raised, ret |-> r.ret, pos |-> 0]
    /\ UNCHANGED <<symbols, stack, export_default_value, command_line_flag, nops,
                   vchar_scanner>>

NextLines == ParseRecipes \/ HandleConditionalDirective

SpecLines == InitLines /\ [][NextLines]_vars

----------------------------------------------------------------------------
(* The scanner on its own: calls of next, pushback, lookahead, push_state, *)
(* pop_state, lstrip and eat on one ScannerIterator.  result.ret is the    *)
(* list of the calls made: the cursor before and after each call and the   *)
(* item it returned.  line_scanner holds the sequence the scanner was made *)
(* from.                                                                   *)
ScanInputs == UNION {[1..k -> {" ", "a"}] : k \in 0..MaxScanLen}

InitScan ==
    /\ symbols = <<>>
    /\ stack = <<>>
    /\ export_default_value = FALSE
    /\ command_line_flag = FALSE
    /\ nops = 0
    /\ result = [call |-> "scanner", raised |-> "none", ret |-> <<>>, pos |-> 0]
    /\ \E data \in ScanInputs :
          /\ vchar_scanner = ScannerIterator(data)
          /\ line_scanner = ScannerIterator(data)

ScanCall(op, sc, item) ==
    /\ Len(result.ret) < MaxScanOps
    /\ vchar_scanner' = sc
    /\ result' = [result EXCEPT !.ret = Append(@, [op |-> op,
                                                   before |-> vchar_scanner.idx,
                                                   after |-> sc.idx,
                                                   item |-> item])]
    /\ UNCHANGED <<symbols, stack, export_default_value, command_line_flag, nops,
                   line_scanner>>

ScanNext ==
    /\ ~exhausted(vchar_scanner)
    /\ ScanCall("next", next(vchar_scanner), lookahead(vchar_scanner))

ScanPushback ==
    /\ vchar_scanner.idx > 1
    /\ ScanCall("pushback", pushback(vchar_scanner), "")

ScanLookahead ==
    /\ ~exhausted(vchar_scanner)
    /\ ScanCall("lookahead", vchar_scanner, lookahead(vchar_scanner))

ScanPushState ==
    /\ Len(vchar_scanner.stack) < MaxScanStack
    /\ ScanCall("push_state", push_state(vchar_scanner), "")

ScanPopState ==
    /\ Len(vchar_scanner.stack) > 0
    /\ ScanCall("pop_state", pop_state(vchar_scanner), "")

\* lstrip where there is white space to skip
ScanLstrip ==
    /\ lstrip(vchar_scanner) # vchar_scanner
    /\ ScanCall("lstrip", lstrip(vchar_scanner), "")

ScanEat ==
    /\ can_eat(vchar_scanner, <<"a">>)
    /\ ScanCall("eat", eat(vchar_scanner, <<"a">>), "")

NextScan ==
    \/ ScanNext
    \/ ScanPushback
    \/ ScanLookahead
    \/ ScanPushState
    \/ ScanPopState
    \/ ScanLstrip
    \/ ScanEat

SpecScan == InitScan /\ [][NextScan]_vars

----------------------------------------------------------------------------
(* The exceptions on their own: one raise with the keyword arguments the   *)
(* raise sites give.  result.ret holds the keyword arguments, then the     *)
(* exception made from them and its string.                                *)
ErrorClasses == {"MakeError", "ParseError", "MissingSeparator"}
ErrorTexts ==
    {"VarRef not closed", "Recursive variable 'a' references itself (eventually)"}
ErrorPositions ==
    {<<f, <<row, col>>>> : f \in {"Makefile", "a.mk"}, row \in 0..MaxPos,
                           col \in 0..MaxPos}
ErrorKwargs ==
    {[keys |-> keys, pos |-> pos, msg |-> text, description |-> text, code |-> ""] :
        keys \in SUBSET {"pos", "msg", "description"}, pos \in ErrorPositions,
        text \in ErrorTexts}

InitErr ==
    /\ symbols = <<>>
    /\ stack = <<>>
    /\ export_default_value = FALSE
    /\ command_line_flag = FALSE
    /\ nops = 0
    /\ vchar_scanner = ScannerIterator(<<>>)
    /\ line_scanner = ScannerIterator(<<>>)
    /\ \E kwargs \in ErrorKwargs :
          result = [call |-> "none", raised |-> "none", ret |-> <<kwargs>>, pos |-> 0]

\* raise cls(**kwargs), and str() of the exception where it is reported
RaiseError ==
    /\ result.call = "none"
    /\ \E cls \in ErrorClasses :
          LET e == MakeError(cls, result.ret[1])
          IN  result' = [call |-> "raise", raised |-> cls,
                         ret |-> <<result.ret[1], e, MakeError_str(e)>>, pos |-> 0]
    /\ UNCHANGED <<symbols, stack, export_default_value, command_line_flag, nops,
                   vchar_scanner, line_scanner>>

NextErr == RaiseError

SpecErr == InitErr /\ [][NextErr]_vars

---------------------------------------------------------------------------
(* Properties.  A property about one call is stated of the operation       *)
(* applied to the table of every reachable state, for every argument.      *)

\* the arguments the properties range over
AllPos == PosInputs \cup {NoPos}

\* the binding of a name: its entry, or absence
Binding(t, n) ==
    IF n \in DOMAIN t.symbols THEN <<"bound", t.symbols[n]>> ELSE <<"absent">>

\* C1: in every reachable table, push(v); add(v,x); pop(v) raises nothing
\* and leaves v bound to the entry it had before the push, or absent if it
\* was absent.
C1_PushAddPopRestores ==
    \A v \in Names, x \in ValueInputs, p \in AllPos :
        LET r1 == push(T, v)
            r2 == add(r1.t, v, x, p)
            r3 == pop(r2.t, v)
        IN  /\ r1.raised = "none" /\ r2.raised = "none" /\ r3.raised = "none"
            /\ Binding(r3.t, v) = Binding(T, v)

\* C2: while a name holds a command-line entry and command_line_flag is
\* off, add and maybe_add for that name change nothing: the table, and so
\* origin(name) and what fetch(name) returns, are as before the call.
C2_CommandLineWins ==
    \A n \in Names :
        (/\ n \in DOMAIN symbols
         /\ symbols[n].cls = "CommandLineEntry"
         /\ ~command_line_flag)
        => \A v \in ValueInputs, p \in AllPos :
              \A r \in {add(T, n, v, p), maybe_add(T, n, v, p)} :
                 /\ r.raised = "none"
                 /\ r.t = T
                 /\ origin(r.t, n) = "command line"
                 /\ fetch(r.t, n).ret = fetch(T, n).ret

\* C2 witness: back in file scope, a name is held by a command-line entry
\* whose value is an unexpanded expression.
C2_Witness ==
    /\ ~command_line_flag
    /\ \E n \in DOMAIN symbols :
          symbols[n].cls = "CommandLineEntry" /\ symbols[n].value.k = "Symbol"

\* C4: maybe_add on a present name, whatever its origin, leaves the whole
\* table unchanged; on an absent name it does what add does.
C4_MaybeAddNoOp ==
    \A n \in Names, v \in ValueInputs, p \in AllPos :
        LET r == maybe_add(T, n, v, p)
        IN  IF n \in DOMAIN symbols
            THEN r.raised = "none" /\ r.t = T
            ELSE /\ r = add(T, n, v, p)
                 /\ n \in DOMAIN r.t.symbols
                 /\ r.t.symbols[n].value = v

\* C4 witness: names of environment, default and command-line origin are
\* present together with an absent name, after calls were made.
C4_Witness ==
    /\ nops > 0
    /\ \E n \in Names : origin(T, n) = "environment"
    /\ \E n \in Names : origin(T, n) = "default"
    /\ \E n \in Names : origin(T, n) = "command line"
    /\ \E n \in Names : origin(T, n) = "undefined"

\* The reference graph of the table: a recursive entry refers to the present
\* names its expression and its appended expressions mention.
ExprRefs(expr) == {expr[i].n : i \in {j \in 1..Len(expr) : expr[j].t = "VarRef"}}

Refers(sym, n) ==
    IF n \in DOMAIN sym /\ sym[n].value.k = "Symbol"
    THEN (ExprRefs(sym[n].value.sym)
          \cup UNION {ExprRefs(sym[n].appends[i]) : i \in 1..Len(sym[n].appends)})
         \cap DOMAIN sym
    ELSE {}

RECURSIVE ReachedFrom(_, _, _)
ReachedFrom(sym, front, k) ==
    IF k = 0 THEN front
    ELSE ReachedFrom(sym, front \cup UNION {Refers(sym, m) : m \in front}, k - 1)

\* the names reached from n in one or more references
ReachPlus(sym, n) == ReachedFrom(sym, Refers(sym, n), Cardinality(Names))

\* n's reference chain runs into a cycle
ChainHasCycle(sym, n) ==
    \E m \in {n} \cup ReachPlus(sym, n) : m \in ReachPlus(sym, m)

\* C3: in every reachable table, fetching a recursive variable raises the
\* recursion MakeError exactly when its reference chain has a cycle.
C3_RecursionErrorIffCycle ==
    \A n \in DOMAIN symbols :
        symbols[n].value.k = "Symbol"
        => (fetch(T, n).raised = "MakeError" <=> ChainHasCycle(symbols, n))

\* C5: append on a recursive variable keeps the expression unexpanded: the
\* fetch that follows returns what fetch returned before, one space, and
\* the value of the appended expression; and when another variable is
\* redefined after the append, fetch returns what it would return without
\* the append, one space, and the value the appended expression has then.
C5_AppendRecursiveLazy ==
    \A n \in DOMAIN symbols, e \in ExprInputs, p \in AllPos :
        symbols[n].value.k = "Symbol"
        => LET a == append(T, n, e, p)
               f0 == fetch(T, n)
               f1 == fetch(a.t, n)
           IN  /\ a.raised = "none"
               /\ f1.raised = "none"
                  => /\ f0.raised = "none"
                     /\ f1.ret = f0.ret \o SP \o EvalExpr(a.t.symbols, e, 1).val
               /\ \A m \in Names \ {n}, v \in ValueInputs :
                     LET b == add(a.t, m, v, MkPos).t
                         c == add(T, m, v, MkPos).t
                         g0 == fetch(c, n)
                         g1 == fetch(b, n)
                     IN  g1.raised = "none"
                         => /\ g0.raised = "none"
                            /\ g1.ret = g0.ret \o SP \o EvalExpr(b.symbols, e, 1).val

\* C5 witness: a recursive entry holds an appended expression, fetch
\* returns, and redefining a variable the appended expression mentions
\* changes what fetch returns.
C5_Witness ==
    \E n \in DOMAIN symbols :
        /\ symbols[n].value.k = "Symbol"
        /\ Len(symbols[n].appends) > 0
        /\ fetch(T, n).raised = "none"
        /\ \E m \in ExprRefs(symbols[n].appends[1]) \ {n}, v \in ValueInputs :
              LET g == fetch(add(T, m, v, MkPos).t, n)
              IN  g.raised = "none" /\ g.ret # fetch(T, n).ret

\* C6: origin(v) differs from "undefined" exactly when v is a key of the
\* table, and fetch of a name that is not a key returns the empty string,
\* raises nothing and leaves the table as it was.
C6_OriginIffKey ==
    \A v \in Names :
        /\ origin(T, v) # "undefined" <=> is_defined(T, v)
        /\ ~is_defined(T, v)
           => LET f == fetch(T, v)
              IN  f.ret = <<>> /\ f.raised = "none" /\ f.t = T

\* C6 witness: a name is not a key while its former entry waits on the undo
\* stack, and another name was undefined or never defined.
C6_Witness ==
    /\ \E v \in Names : v \notin DOMAIN symbols /\ v \in DOMAIN stack
                        /\ Len(stack[v]) > 0
    /\ \E v \in Names : v \notin DOMAIN symbols /\ v \notin DOMAIN stack

\* C7: no never_export entry (default, callback, automatic) has its export
\* bit set, and none is among the names get_exports returns.
C7_NeverExportEntriesUnexported ==
    \A n \in DOMAIN symbols :
        never_export(symbols[n])
        => ~symbols[n].export /\ n \notin exported_names(T)

\* the tables one further call leaves, each with the name of the call
Calls(t) ==
    UNION {
      {[op |-> "add", t |-> add(t, n, v, p).t] :
          n \in Names, v \in ValueInputs, p \in AllPos},
      {[op |-> "maybe_add", t |-> maybe_add(t, n, v, p).t] :
          n \in Names, v \in ValueInputs, p \in AllPos},
      {[op |-> "append", t |-> append(t, n, e, p).t] :
          n \in Names, e \in ExprInputs, p \in AllPos},
      {[op |-> "push", t |-> push(t, n).t] : n \in Names},
      {[op |-> "pop", t |-> pop(t, n).t] : n \in Names},
      {[op |-> "undefine", t |-> undefine(t, n).t] : n \in Names},
      {[op |-> "export", t |-> export(t, n).t] : n \in Names},
      {[op |-> "unexport", t |-> unexport(t, n).t] : n \in Names},
      {[op |-> "fetch", t |-> fetch(t, n).t] : n \in Names},
      {[op |-> "export_all", t |-> _export_all(t)],
       [op |-> "unexport_all", t |-> _unexport_all(t)],
       [op |-> "export_start", t |-> export_start(t)],
       [op |-> "export_stop", t |-> export_stop(t)],
       [op |-> "command_line_start", t |-> command_line_start(t)],
       [op |-> "command_line_stop", t |-> command_line_stop(t)]} }

\* every file entry an add creates in table t has export bit b
FileAddsExported(t, b) ==
    \A n \in Names, v \in ValueInputs, p \in AllPos :
        (/\ ~t.command_line_flag
         /\ ~(n \in DOMAIN t.symbols /\ t.symbols[n].cls = "CommandLineEntry"))
        => add(t, n, v, p).t.symbols[n].export = b

\* C8: after export() with no name every entry that is not never_export is
\* exported, and a file entry added then, or after one further call other
\* than unexport(), is exported; likewise, with the bit cleared, after
\* unexport() with no name and calls other than export().
C8_ExportAllUntilUnexportAll ==
    LET t1 == _export_all(T)
        u1 == _unexport_all(T)
    IN  /\ \A m \in DOMAIN t1.symbols :
              ~never_export(t1.symbols[m]) => t1.symbols[m].export
        /\ FileAddsExported(t1, TRUE)
        /\ \A c \in Calls(t1) : c.op # "unexport_all" => FileAddsExported(c.t, TRUE)
        /\ \A m \in DOMAIN u1.symbols :
              ~never_export(u1.symbols[m]) => ~u1.symbols[m].export
        /\ FileAddsExported(u1, FALSE)
        /\ \A c \in Calls(u1) : c.op # "export_all" => FileAddsExported(c.t, FALSE)

\* fetch(n) returns the value v that was stored: the string itself, or the
\* expansion of the expression whenever the fetch returns
FetchReturns(t, n, v) ==
    LET f == fetch(t, n)
    IN  /\ t.symbols[n].value = v
        /\ IF v.k = "str" THEN f.raised = "none" /\ f.ret = v.str
           ELSE f.raised = "none" => f.ret = EvalExpr(t.symbols, v.sym, 1).val

SimpleAppendConcats(n, e, p) ==
    LET a == append(T, n, e, p)
        x == EvalExpr(symbols, e, 1)
    IN  ~x.err
        => /\ a.raised = "none"
           /\ a.t.symbols[n].value = StrVal(symbols[n].value.str \o SP \o x.val)
           /\ fetch(a.t, n).ret = symbols[n].value.str \o SP \o x.val
           /\ \A m \in Names \ {n}, v \in ValueInputs :
                 fetch(add(a.t, m, v, MkPos).t, n).ret = fetch(a.t, n).ret

AppendAbsentIsAdd(n, e, p) ==
    LET a == append(T, n, e, p)
    IN  /\ a = add(T, n, SymVal(e), p)
        /\ a.t.symbols[n].value = SymVal(e)
        /\ a.t.symbols[n].appends = <<>>

\* C10 as claimed: append on an absent name is add of a recursive entry;
\* append on every present entry holding a string concatenates.
C10_AppendSimpleAnyEntry ==
    \A n \in Names, e \in ExprInputs, p \in AllPos :
        IF n \notin DOMAIN symbols THEN AppendAbsentIsAdd(n, e, p)
        ELSE symbols[n].value.k = "str" => SimpleAppendConcats(n, e, p)

\* C10 amended: append on an absent name is add of a recursive entry; append
\* on a present entry holding a string concatenates, except that a
\* command-line entry is left as it was.
C10_AppendSimple ==
    \A n \in Names, e \in ExprInputs, p \in AllPos :
        IF n \notin DOMAIN symbols THEN AppendAbsentIsAdd(n, e, p)
        ELSE symbols[n].value.k = "str"
             => IF symbols[n].cls = "CommandLineEntry"
                THEN append(T, n, e, p).t.symbols[n] = symbols[n]
                ELSE SimpleAppendConcats(n, e, p)

\* C10 witness: an entry that is not a command-line entry holds a string
\* made by an append (a string, a space, a value), and a command-line
\* entry holding a string is present.
C10_Witness ==
    /\ \E n \in DOMAIN symbols :
          /\ symbols[n].cls # "CommandLineEntry"
          /\ symbols[n].value.k = "str"
          /\ Len(symbols[n].value.str) >= 3
          /\ symbols[n].value.str[2] = " "
    /\ \E n \in DOMAIN symbols :
          symbols[n].cls = "CommandLineEntry" /\ symbols[n].value.k = "str"

\* C11: while a name holds a command-line entry and command_line_flag is
\* off, append(name, e) leaves what fetch(name) returns (and whether it
\* raises) as it was, for a stored string and for a stored expression.
C11_AppendCommandLineUnchanged ==
    \A n \in DOMAIN symbols, e \in ExprInputs, p \in AllPos :
        (symbols[n].cls = "CommandLineEntry" /\ ~command_line_flag)
        => LET a == append(T, n, e, p)
               f0 == fetch(T, n)
               f1 == fetch(a.t, n)
           IN  f1.ret = f0.ret /\ f1.raised = f0.raised

\* C12: pop(name) on a name that has a current entry and no entry saved on
\* the undo stack (never pushed, or every push already popped) raises
\* nothing, deletes the entry of name and leaves the other entries alone.
C12_PopNothingSavedDeletes ==
    \A n \in DOMAIN symbols :
        (n \notin DOMAIN stack \/ Len(stack[n]) = 0)
        => LET r == pop(T, n)
           IN  /\ r.raised = "none"
               /\ r.t.symbols = Del(symbols, n)

\* C13: flavor(name) is "undefined" exactly when name is absent, "recursive"
\* when the stored value is an expression tree or the origin is
\* "environment", and "simple" otherwise.
C13_Flavor ==
    \A n \in Names :
        flavor(T, n) =
            IF n \notin DOMAIN symbols THEN "undefined"
            ELSE IF symbols[n].value.k = "Symbol"
                    \/ origin(T, n) = "environment" THEN "recursive"
            ELSE "simple"

\* the makefile text of the whole definition of a recursive entry: the
\* stored expression and the appended expressions, joined as fetch joins
\* their values
WholeDefinition(e) ==
    JoinSp(<<makefile(e.value.sym)>>
           \o [i \in 1..Len(e.appends) |-> makefile(e.appends[i])])

\* C14: value(name) changes nothing and returns, for a recursive entry, the
\* makefile text of the whole definition fetch would expand, appended
\* expressions included; for an entry holding a string, that string.
C14_ValueUnexpanded ==
    \A n \in DOMAIN symbols :
        LET r == value(T, n)
        IN  /\ r.t = T
            /\ symbols[n].value.k = "Symbol"
               => r.k = "str" /\ r.ret = WholeDefinition(symbols[n])
            /\ symbols[n].value.k = "str"
               => r.k = "str" /\ r.ret = symbols[n].value.str

\* a word whose suffix pat1 is replaced by pat2
SuffixReplaced(w, pat1, pat2) ==
    IF endswith(w, pat1) THEN SubSeq(w, 1, Len(w) - Len(pat1)) \o pat2 ELSE w

\* C15: when fetch(VAR) returns, fetch of VAR:PAT1=PAT2 returns the words
\* of fetch(VAR) in order, joined by single spaces, each word that ends
\* with PAT1 having that suffix replaced by PAT2; PAT1 may be empty.
C15_SubstitutionReference ==
    \A n \in Names, pat1 \in PatInputs, pat2 \in PatInputs :
        LET f == fetch(T, n)
            w == split(f.ret)
            r == fetch_key(T, SubstKey(n, pat1, pat2))
        IN  f.raised = "none"
            => /\ r.raised = "none"
               /\ r.ret = JoinSp([i \in 1..Len(w) |->
                                    SuffixReplaced(w[i], pat1, pat2)])

\* C16: the entry a file-scope add creates, over an absent name or over an
\* entry of file, environment or default origin, has its export bit equal
\* to export_default_value at the add, whatever the bit of the old entry.
C16_FileAddInheritsExportDefault ==
    \A n \in Names, v \in ValueInputs, p \in AllPos :
        (/\ ~command_line_flag
         /\ origin(T, n) \in {"undefined", "file", "environment", "default"})
        => LET r == add(T, n, v, p)
           IN  /\ r.raised = "none"
               /\ origin(r.t, n) = "file"
               /\ r.t.symbols[n].export = export_default_value

\* C16 witness: in file scope, an exported file entry stands while
\* export_default_value is off, an unexported one while another name's file
\* entry is exported, so an add over either changes the bit.
C16_Witness ==
    /\ ~command_line_flag
    /\ \E n \in DOMAIN symbols, m \in DOMAIN symbols :
          /\ origin(T, n) = "file" /\ symbols[n].export
          /\ origin(T, m) = "file" /\ ~symbols[m].export

\* The extent of a reference, read off the text: MatchingClose(s, i) is the
\* index of the closer that balances the opener of the reference "$(" or
\* "${" starting at s[i], 0 when there is none.  Inside a reference "$$" and
\* "$" with one other character are units and a nested reference is skipped
\* up to its own closer.
RECURSIVE MatchingClose(_, _), ScanClose(_, _, _)
MatchingClose(s, i) == ScanClose(s, i + 2, IF s[i + 1] = "(" THEN ")" ELSE "}")

ScanClose(s, j, closer) ==
    IF j > Len(s) THEN 0
    ELSE IF s[j] = closer THEN j
    ELSE IF s[j] = "$" /\ j < Len(s)
    THEN IF s[j + 1] \in {"(", "{"}
         THEN LET k == MatchingClose(s, j)
              IN  IF k = 0 THEN 0 ELSE ScanClose(s, k + 1, closer)
         ELSE ScanClose(s, j + 2, closer)
    ELSE ScanClose(s, j + 1, closer)

\* The first operator of a text, read off the text up to the first of the
\* characters stops.  References are skipped, and so is a backslash with
\* the character after it, a literal pair.  kind is "assign" for = := ::=
\* ?= += !=, "rule" for ':' or '::' not followed by '=', "bar" for one of
\* the characters bars, "none" when there is no operator; at is the index
\* where the operator starts, or where the scan ended.
RECURSIVE OperatorScan(_, _, _, _)
OperatorScan(s, i, stops, bars) ==
    LET at(k) == IF i + k <= Len(s) THEN s[i + k] ELSE ""
    IN  IF i > Len(s) \/ s[i] \in stops \/ s[i] \in eol
        THEN [kind |-> "none", at |-> i]
        ELSE IF s[i] = "$"
        THEN IF at(1) \in {"(", "{"}
             THEN LET k == MatchingClose(s, i)
                  IN  IF k = 0 THEN [kind |-> "none", at |-> Len(s) + 1]
                      ELSE OperatorScan(s, k + 1, stops, bars)
             ELSE OperatorScan(s, i + 2, stops, bars)
        ELSE IF s[i] = "\\" THEN OperatorScan(s, i + 2, stops, bars)
        ELSE IF s[i] \in bars THEN [kind |-> "bar", at |-> i]
        ELSE IF s[i] = "=" THEN [kind |-> "assign", at |-> i]
        ELSE IF s[i] \in {"?", "+", "!"} /\ at(1) = "="
        THEN [kind |-> "assign", at |-> i]
        ELSE IF s[i] = ":"
        THEN IF at(1) = "=" \/ (at(1) = ":" /\ at(2) = "=")
             THEN [kind |-> "assign", at |-> i]
             ELSE [kind |-> "rule", at |-> i]
        ELSE OperatorScan(s, i + 1, stops, bars)

\* the first operator of a statement line, outside references and comments
FirstOperator(s) == OperatorScan(s, 1, {"#"}, {})

\* the first operator of the text after a rule's ':', which ends at the
\* first ';' or '#' outside a reference; '|' counts as an operator there
FirstTailOperator(s) == OperatorScan(s, 1, {"#", ";"}, {"|"})

RECURSIVE Strip(_)
Strip(s) ==
    IF Len(s) = 0 THEN s
    ELSE IF s[1] = " " THEN Strip(Tail(s))
    ELSE IF s[Len(s)] = " " THEN Strip(SubSeq(s, 1, Len(s) - 1))
    ELSE s

\* the makefile text of a list of Literal and VarRef tokens: a literal "$"
\* is written "$$", a reference "$(...)"
RECURSIVE SourceText(_)
SourceText(token_list) ==
    IF Len(token_list) = 0 THEN <<>>
    ELSE LET tok == token_list[1]
         IN  (IF tok.t = "Literal"
              THEN Flatten([i \in 1..Len(tok.s) |->
                              IF tok.s[i] = "$" THEN <<"$", "$">> ELSE <<tok.s[i]>>])
              ELSE <<"$", "(">> \o SourceText(tok.c) \o <<")">>)
             \o SourceText(Tail(token_list))

\* the targets of the rule tokenize_statement returned are tokenized from
\* the start of the line: when the text before the operator has neither a
\* reference nor a backslash they are its blank-separated words, one
\* Literal each
TargetsAreWords(lhs, lhs_text) ==
    (\A k \in 1..Len(lhs_text) : lhs_text[k] \notin {"$", "\\"})
    => LET w == split(lhs_text)
       IN  lhs = [i \in 1..Len(w) |-> Literal(w[i])]

\* the left-hand side of the assignment tokenize_statement returned is the
\* text before the operator without its leading and trailing blanks
AssignLhsStripped(st, lhs_text) ==
    st.t = "AssignmentExpression"
    => /\ st.c[1].t = "Expression"
       /\ SourceText(st.c[1].c) = Strip(lhs_text)

\* C18 as claimed: the left-hand side of an assignment is the text before
\* the operator without its leading and trailing blanks, internal blanks
\* kept; the targets of a rule are tokenized from the start of the line,
\* one Literal per blank-separated word, and no Literal among them holds a
\* blank.
C18_NoBlankInTarget ==
    (result.call = "tokenize_statement" /\ result.raised = "none")
    => LET d == vchar_scanner.data
           lhs_text == SubSeq(d, 1, FirstOperator(d).at - 1)
           st == result.ret[1]
           lhs == st.c[1].c
       IN  /\ AssignLhsStripped(st, lhs_text)
           /\ st.t = "RuleExpression"
              => /\ st.c[1].t = "Expression"
                 /\ TargetsAreWords(lhs, lhs_text)
                 /\ \A i \in 1..Len(lhs) :
                       lhs[i].t = "Literal"
                       => /\ Len(lhs[i].s) > 0
                          /\ \A k \in 1..Len(lhs[i].s) : lhs[i].s[k] # " "

\* C18 amended: as claimed, except that a Literal among the targets may
\* hold a blank that follows a backslash: a backslash and the character
\* after it stay in the target as a literal pair.
C18_LhsWhitespace ==
    (result.call = "tokenize_statement" /\ result.raised = "none")
    => LET d == vchar_scanner.data
           lhs_text == SubSeq(d, 1, FirstOperator(d).at - 1)
           st == result.ret[1]
           lhs == st.c[1].c
       IN  /\ AssignLhsStripped(st, lhs_text)
           /\ st.t = "RuleExpression"
              => /\ st.c[1].t = "Expression"
                 /\ TargetsAreWords(lhs, lhs_text)
                 /\ \A i \in 1..Len(lhs) :
                       lhs[i].t = "Literal"
                       => /\ Len(lhs[i].s) > 0
                          /\ lhs[i].s[1] # " "
                          /\ \A k \in 2..Len(lhs[i].s) :
                                lhs[i].s[k] = " " => lhs[i].s[k - 1] = "\\"

\* C18 witness: tokenize_statement returned a rule with the two targets
\* "\ a" and "a" for the line "\ a a:", the first holding the escaped blank.
C18_Witness ==
    /\ result.call = "tokenize_statement"
    /\ result.raised = "none"
    /\ vchar_scanner.data = <<"\\", " ", "a", " ", "a", ":", "\n">>
    /\ result.ret[1].t = "RuleExpression"
    /\ result.ret[1].c[1].c = <<Literal(<<"\\", " ", "a">>), Literal(<<"a">>)>>

C20_ReferenceClosedByMatch ==
    (result.call = "tokenize_variable_ref" /\ result.raised = "none")
    => vchar_scanner.idx - 1 = MatchingClose(vchar_scanner.data, 1)

\* The text of the first token of a reference body s[i..k], read off the
\* text: the characters up to the first nested reference, "$$" standing for
\* one "$"; empty when the body is empty or starts with a reference.
RECURSIVE LeadingLiteral(_, _, _)
LeadingLiteral(s, i, k) ==
    IF i > k THEN <<>>
    ELSE IF s[i] = "$"
    THEN IF i < k /\ s[i + 1] = "$"
         THEN <<"$">> \o LeadingLiteral(s, i + 2, k)
         ELSE <<>>
    ELSE <<s[i]>> \o LeadingLiteral(s, i + 1, k)

\* the leading word of a text: what comes before its first space or tab
RECURSIVE LeadingWord(_)
LeadingWord(str) ==
    IF Len(str) = 0 \/ str[1] \in whitespace THEN <<>>
    ELSE <<str[1]>> \o LeadingWord(Tail(str))

\* a reference written with parentheses only and closed
ClosedParenReference(d) ==
    /\ \A j \in 1..Len(d) : d[j] \notin {"{", "}"}
    /\ MatchingClose(d, 1) # 0

\* C21: for every closed reference, tokenize_variable_ref returns, and what
\* it returns is a Function node when the first token is a Literal whose
\* leading word is a built-in function name and a VarRef in every other
\* case, the empty reference and a reference that starts with a nested
\* reference included.
C21_FunctionOrVarRef ==
    (result.call = "tokenize_variable_ref" /\ ClosedParenReference(vchar_scanner.data))
    => LET d == vchar_scanner.data
           first == LeadingLiteral(d, 3, MatchingClose(d, 1) - 1)
       IN  /\ result.raised = "none"
           /\ result.ret[1].t = IF Len(first) > 0 /\ LeadingWord(first) \in _classes
                                THEN "Function" ELSE "VarRef"

\* a reference that no character closes: the text holds no ')' and no '}',
\* and every '$' in it opens a reference or is half of "$$"
UnclosedReference(d) ==
    /\ \A j \in 1..Len(d) : d[j] \notin {")", "}"}
    /\ d[Len(d)] # "$"
    /\ \A j \in 1..(Len(d) - 1) : d[j] = "$" => d[j + 1] \in {"$", "(", "{"}

\* C22: when the scanner is exhausted before the reference is closed,
\* tokenize_variable_ref raises a ParseError whose position is the position
\* of a '$' that opens a reference.
C22_UnclosedAtDollar ==
    (result.call = "tokenize_variable_ref" /\ UnclosedReference(vchar_scanner.data))
    => LET d == vchar_scanner.data
       IN  /\ result.raised = "ParseError"
           /\ result.pos \in 1..(Len(d) - 1)
           /\ d[result.pos] = "$"
           /\ d[result.pos + 1] \in {"(", "{"}

\* the number of "$" in the Literals of a tree, and whether the tree holds
\* a reference
RECURSIVE LiteralDollars(_), SumDollars(_), HasReference(_)
LiteralDollars(node) ==
    (IF node.t = "Literal"
     THEN Cardinality({i \in 1..Len(node.s) : node.s[i] = "$"}) ELSE 0)
    + SumDollars(node.c)

SumDollars(nodes) ==
    IF Len(nodes) = 0 THEN 0
    ELSE LiteralDollars(nodes[1]) + SumDollars(Tail(nodes))

HasReference(node) ==
    \/ node.t \in {"VarRef", "Function"}
    \/ \E i \in 1..Len(node.c) : HasReference(node.c[i])

\* the number of pairs "$$" of the text s[i..], read from the left; -1 when
\* some "$" is not half of a pair
RECURSIVE DollarPairs(_, _)
DollarPairs(s, i) ==
    IF i > Len(s) THEN 0
    ELSE IF s[i] # "$" THEN DollarPairs(s, i + 1)
    ELSE IF i < Len(s) /\ s[i + 1] = "$"
    THEN LET n == DollarPairs(s, i + 2) IN IF n < 0 THEN -1 ELSE n + 1
    ELSE -1

\* C23: in a text whose every "$" is half of a pair "$$", each pair gives
\* one "$" to the Literals of a statement (left-hand side, assignment
\* right-hand side, prerequisites) and of a reference body, and two in a
\* recipe, and no reference is made of it.  Statements are taken without
\* comment and inline recipe, whose text is not tokenized.
C23_DoubleDollar ==
    LET d == vchar_scanner.data
    IN  result.raised = "none"
        => /\ ( /\ result.call \in {"tokenize_statement",
                                   "tokenize_rule_prereq_or_assign"}
                /\ DollarPairs(d, 1) >= 0
                /\ \A j \in 1..Len(d) : d[j] \notin {"#", ";"} )
              => /\ ~HasReference(result.ret[1])
                 /\ LiteralDollars(result.ret[1]) = DollarPairs(d, 1)
           /\ ( /\ result.call = "tokenize_variable_ref"
                /\ DollarPairs(d, 3) >= 0
                /\ \A j \in 1..(Len(d) - 1) : d[j] \notin {")", "}"} )
              => /\ \A i \in 1..Len(result.ret[1].c) :
                       ~HasReference(result.ret[1].c[i])
                 /\ LiteralDollars(result.ret[1]) = DollarPairs(d, 3)
           /\ (result.call = "tokenize_recipe" /\ DollarPairs(d, 1) >= 0)
              => /\ ~HasReference(result.ret[1])
                 /\ LiteralDollars(result.ret[1]) = 2 * DollarPairs(d, 1)

\* C23 witness: the statement "$$=$$" was tokenized into an assignment
\* whose two sides are the Literal "$".
C23_Witness ==
    /\ result.call = "tokenize_statement"
    /\ result.raised = "none"
    /\ vchar_scanner.data = <<"$", "$", "=", "$", "$", "\n">>
    /\ result.ret[1].t = "AssignmentExpression"
    /\ result.ret[1].c[1].c = <<Literal(<<"$">>)>>
    /\ result.ret[1].c[3].c = <<Literal(<<"$">>)>>

\* The lines after a rule, read off the file.  A logical line starts at a
\* physical line and runs to the first line from there that does not end
\* in backslash-newline, or to the end of the file.
RECURSIVE LogicalEnd(_, _)
LogicalEnd(lines, i) ==
    IF i >= Len(lines) \/ ~endswith_backslash_nl(lines[i]) THEN i
    ELSE LogicalEnd(lines, i + 1)

\* the texts of the recipe-prefixed logical lines from line i on, in source
\* order, up to the first line that is neither a recipe, nor blank, nor a
\* comment; stop is the index of that line, Len(lines) + 1 without one
RECURSIVE RecipeLines(_, _)
RecipeLines(lines, i) ==
    IF i > Len(lines) THEN [texts |-> <<>>, stop |-> i]
    ELSE IF startswith(lines[i], recipe_prefix)
    THEN LET e == LogicalEnd(lines, i)
             rest == RecipeLines(lines, e + 1)
         IN  [texts |-> <<Flatten(SubSeq(lines, i, e))>> \o rest.texts,
              stop |-> rest.stop]
    ELSE IF Len(strip(lines[i])) = 0 THEN RecipeLines(lines, i + 1)
    ELSE IF startswith(strip(lines[i]), "#")
    THEN RecipeLines(lines, LogicalEnd(lines, i) + 1)
    ELSE [texts |-> <<>>, stop |-> i]

\* the Recipe of a recipe text
RecipeOf(text) == tokenize_recipe(ScannerIterator(text)).ret[1]

\* C24: parse_recipes returns a RecipeList that holds the Recipe of the
\* inline recipe first when there is one, then the Recipe of each
\* recipe-prefixed logical line in source order; it has read the lines up
\* to the first line that is neither a recipe, nor blank, nor a comment, and
\* that line is the next one the line scanner gives.
C24_RecipesCollected ==
    result.call = "parse_recipes"
    => LET lines == line_scanner.data
           expected == RecipeLines(lines, 1)
           inline == IF Len(vchar_scanner.data) > 0
                     THEN <<RecipeOf(vchar_scanner.data)>> ELSE <<>>
       IN  /\ result.raised = "none"
           /\ result.ret[1].t = "RecipeList"
           /\ result.ret[1].c
                = inline \o [k \in 1..Len(expected.texts) |-> RecipeOf(expected.texts[k])]
           /\ line_scanner.idx = expected.stop

\* the first word of a line, read off the line: the characters after the
\* leading white space up to the next white space or end of line
RECURSIVE WordAt(_, _)
WordAt(d, i) ==
    IF i > Len(d) \/ d[i] \in whitespace \cup eol THEN <<>>
    ELSE <<d[i]>> \o WordAt(d, i + 1)

RECURSIVE FirstWord(_, _)
FirstWord(d, i) ==
    IF i <= Len(d) /\ d[i] \in whitespace THEN FirstWord(d, i + 1)
    ELSE WordAt(d, i)

\* C25: for every line and every set, seek_directive returns the first
\* word of the line when that word belongs to the set, and None in every
\* other case, whatever the first character of the line is.
C25_SeekDirective ==
    (result = NoResult /\ vchar_scanner.data \in DirectiveInputs)
    => \A seek \in SeekSets :
          LET r == seek_directive(vchar_scanner, seek)
              word == FirstWord(vchar_scanner.data, 1)
          IN  /\ r.raised = "none"
              /\ r.ret = IF word \in seek THEN <<Literal(word)>> ELSE <<None>>

\* The lines of a conditional block, read off the file.  The kind of a
\* line is given by its first word and, after an else, by the word that
\* follows: "if", "else", "else if", "endif" or "body".
LineKind(line) ==
    LET word == FirstWord(line, 1)
        k == CHOOSE j \in 1..(Len(line) + 1) :
                 /\ j > Len(line) \/ line[j] \notin whitespace
                 /\ \A m \in 1..(j - 1) : line[m] \in whitespace
    IN  IF word \in conditional_directive THEN "if"
        ELSE IF word = <<"e", "n", "d", "i", "f">> THEN "endif"
        ELSE IF word = <<"e", "l", "s", "e">>
        THEN IF FirstWord(line, k + 4) \in conditional_directive
             THEN "else if" ELSE "else"
        ELSE "body"

\* BlockEnd(lines, i, seen_else): where the block whose lines start at i
\* ends.  kind is "end" with at the index of the endif that balances the
\* opening directive, "second else" with at the index of a second plain
\* else of one block, or "eof".  A nested conditional runs to its own endif
\* and its else and endif count for it alone; an else with a conditional
\* opens a further arm of the same block.
RECURSIVE BlockEnd(_, _, _)
BlockEnd(lines, i, seen_else) ==
    IF i > Len(lines) THEN [kind |-> "eof", at |-> i]
    ELSE LET kind == LineKind(lines[i])
         IN  IF kind = "if"
             THEN LET n == BlockEnd(lines, i + 1, FALSE)
                  IN  IF n.kind = "end" THEN BlockEnd(lines, n.at + 1, seen_else)
                      ELSE n
             ELSE IF kind = "else"
             THEN IF seen_else THEN [kind |-> "second else", at |-> i]
                  ELSE BlockEnd(lines, i + 1, TRUE)
             ELSE IF kind = "endif" THEN [kind |-> "end", at |-> i]
             ELSE BlockEnd(lines, i + 1, seen_else)

\* the lines up to index n have no line of the given kinds
NoLineOf(lines, n, kinds) ==
    \A j \in 1..n : j <= Len(lines) => LineKind(lines[j]) \notin kinds

StartsWithPrefix(lines, n) ==
    \E j \in 1..n : j <= Len(lines) /\ startswith(lines[j], recipe_prefix)

C27_ElseIf ==
    result.call = "handle_conditional_directive"
    => LET lines == line_scanner.data
           end == BlockEnd(lines, 1, FALSE)
       IN  (end.kind = "end" /\ ~StartsWithPrefix(lines, end.at))
           => (result.raised = "none" /\ line_scanner.idx = end.at + 1)

\* the texts of the lines held by the LineBlocks of a block and of the
\* blocks nested in it, in order
RECURSIVE HeldLines(_), HeldLinesOf(_)
HeldLines(node) ==
    IF node.t = "LineBlock" THEN [i \in 1..Len(node.c) |-> node.c[i].s]
    ELSE IF node.t = "ConditionalBlock" THEN HeldLinesOf(node.c)
    ELSE <<>>

HeldLinesOf(nodes) ==
    IF Len(nodes) = 0 THEN <<>>
    ELSE HeldLines(nodes[1]) \o HeldLinesOf(Tail(nodes))

\* the body lines among lines[i..n], in order
RECURSIVE BodyLines(_, _, _)
BodyLines(lines, i, n) ==
    IF i > n THEN <<>>
    ELSE (IF LineKind(lines[i]) = "body" THEN <<lines[i]>> ELSE <<>>)
         \o BodyLines(lines, i + 1, n)

\* C28: when a block without a second plain else and without an else
\* followed by a conditional has its endif, it is assembled without error
\* whatever its body lines are, and its LineBlocks hold the body lines, each
\* as it is in the file, in order.
C28_BodyLinesKept ==
    result.call = "handle_conditional_directive"
    => LET lines == line_scanner.data
           end == BlockEnd(lines, 1, FALSE)
       IN  (end.kind = "end" /\ NoLineOf(lines, end.at, {"else if"}))
           => /\ result.raised = "none"
              /\ HeldLines(result.ret[1]) = BodyLines(lines, 1, end.at)

\* the items of a list of tokens: the characters of the Literals, and
\* RefItem for a reference
RECURSIVE ItemsOf(_)
ItemsOf(token_list) ==
    IF Len(token_list) = 0 THEN <<>>
    ELSE (IF token_list[1].t = "Literal" THEN token_list[1].s ELSE <<RefItem>>)
         \o ItemsOf(Tail(token_list))

\* the two arguments of "(A,B)" read off the text: A runs from the opening
\* character to the first comma, B from there to the closing character
IfeqArgs(d) ==
    LET o == CHOOSE j \in 1..Len(d) : d[j] = "(" /\ \A m \in 1..(j - 1) : d[m] # "("
        k == CHOOSE j \in 1..Len(d) : d[j] = "," /\ \A m \in 1..(j - 1) : d[m] # ","
        e == CHOOSE j \in 1..Len(d) :
                 /\ j > k /\ d[j] \in close_chars
                 /\ \A m \in (k + 1)..(j - 1) : d[m] \notin close_chars
    IN  [arg1 |-> SubSeq(d, o + 1, k - 1), arg2 |-> SubSeq(d, k + 1, e - 1),
         close |-> d[e]]

\* C29: for the parenthesised form, the first expression is the first
\* argument without its trailing white space, its leading white space kept,
\* and the second expression is the second argument without its leading
\* white space, its trailing white space kept; a closing character other
\* than ')' raises ParseError.
C29_IfeqWhitespace ==
    result.call = "old_parse_ifeq_directive"
    => LET a == IfeqArgs(vchar_scanner.data)
       IN  IF a.close # ")" THEN result.raised = "ParseError"
           ELSE /\ result.raised = "none"
                /\ ItemsOf(result.ret[1].c) = kill_trailing_ws(a.arg1)
                /\ ItemsOf(result.ret[2].c) = kill_leading_ws(a.arg2)

\* the items of a sequence without its commas
RECURSIVE NoCommas(_)
NoCommas(items) ==
    IF Len(items) = 0 THEN <<>>
    ELSE (IF items[1] = "," THEN <<>> ELSE <<items[1]>>) \o NoCommas(Tail(items))

\* the items of all the arguments, one argument after the other
RECURSIVE ArgItems(_)
ArgItems(args) ==
    IF Len(args) = 0 THEN <<>> ELSE ItemsOf(args[1]) \o ArgItems(Tail(args))

\* C30: the text of the arguments is the text of the token list with only
\* the white space before the first other item removed: the white space
\* after it in argument 1, and the white space of the later arguments, is
\* still there (the commas set aside on both sides).
C30_OnlyLeadingWhitespace ==
    result.call = "_parse_args"
    => NoCommas(ArgItems(result.ret))
       = NoCommas(kill_leading_ws(Tail(vchar_scanner.data)))

\* the number of commas of a sequence of items
RECURSIVE CountCommas(_)
CountCommas(items) ==
    IF Len(items) = 0 THEN 0
    ELSE (IF items[1] = "," THEN 1 ELSE 0) + CountCommas(Tail(items))

\* the commas that separate: the first num_args - 1 of them
Separators(fname, items) ==
    IF CountCommas(items) < num_args(fname) THEN CountCommas(items)
    ELSE num_args(fname) - 1

\* C31: there are never more arguments than the declared number, and the
\* commas after the one that starts the last argument are kept in the
\* arguments as text.
C31_LastArgumentKeepsCommas ==
    result.call = "_parse_args"
    => LET fname == Head(vchar_scanner.data)
           items == Tail(vchar_scanner.data)
       IN  /\ Len(result.ret) <= num_args(fname)
           /\ CountCommas(ArgItems(result.ret))
              = CountCommas(items) - Separators(fname, items)

\* the calls i .. i+k-1 of the list are all calls of op
Run(log, i, k, op) == \A j \in i..(i + k - 1) : log[j].op = op

\* C32: k calls of next() and then k calls of pushback() leave the cursor
\* where it was, and k further calls of next() return the same items; a
\* lookahead() leaves the cursor alone and returns what a next() made right
\* after it returns.
C32_NextPushbackRoundTrip ==
    result.call = "scanner"
    => LET log == result.ret
       IN  /\ \A i \in 1..Len(log), k \in 1..(Len(log) \div 2) :
                (/\ i + 2 * k - 1 <= Len(log)
                 /\ Run(log, i, k, "next")
                 /\ Run(log, i + k, k, "pushback"))
                => /\ log[i + 2 * k - 1].after = log[i].before
                   /\ (/\ i + 3 * k - 1 <= Len(log)
                       /\ Run(log, i + 2 * k, k, "next"))
                      => \A j \in 0..(k - 1) :
                            log[i + 2 * k + j].item = log[i + j].item
           /\ \A i \in 1..Len(log) :
                log[i].op = "lookahead"
                => /\ log[i].after = log[i].before
                   /\ (i < Len(log) /\ log[i + 1].op = "next")
                      => log[i + 1].item = log[i].item

\* two items read, two pushed back and the two read again
C32_Witness ==
    /\ result.call = "scanner"
    /\ vchar_scanner.data = <<" ", "a">>
    /\ Len(result.ret) = 6
    /\ Run(result.ret, 1, 2, "next")
    /\ Run(result.ret, 3, 2, "pushback")
    /\ Run(result.ret, 5, 2, "next")
    /\ result.ret[5].item = " " /\ result.ret[6].item = "a"

\* the number of calls of op among the calls i .. j of the list
RECURSIVE CountOp(_, _, _, _)
CountOp(log, i, j, op) ==
    IF i > j THEN 0
    ELSE (IF log[i].op = op THEN 1 ELSE 0) + CountOp(log, i + 1, j, op)

\* the push_state() that the pop_state() at j matches: the last one before
\* it with as many push_state() as pop_state() in between
MatchingPush(log, j) ==
    CHOOSE i \in 1..(j - 1) :
        /\ log[i].op = "push_state"
        /\ CountOp(log, i + 1, j - 1, "push_state")
           = CountOp(log, i + 1, j - 1, "pop_state")
        /\ \A m \in (i + 1)..(j - 1) :
              ~(/\ log[m].op = "push_state"
                /\ CountOp(log, m + 1, j - 1, "push_state")
                   = CountOp(log, m + 1, j - 1, "pop_state"))

RemainAt(data, idx) == SubSeq(data, idx, Len(data))

\* C33: after a pop_state() the unconsumed items are those at the matching
\* push_state(), whatever calls were made in between, nested pairs
\* included, and the sequence under the scanner is the one it was made from.
C33_PopStateRestores ==
    result.call = "scanner"
    => LET log == result.ret
       IN  /\ vchar_scanner.data = line_scanner.data
           /\ \A j \in 1..Len(log) :
                log[j].op = "pop_state"
                => RemainAt(vchar_scanner.data, log[j].after)
                   = RemainAt(line_scanner.data, log[MatchingPush(log, j)].before)

\* two nested pairs with an item read inside each
C33_Witness ==
    /\ result.call = "scanner"
    /\ Len(result.ret) = 6
    /\ result.ret[1].op = "push_state" /\ result.ret[2].op = "next"
    /\ result.ret[3].op = "push_state" /\ result.ret[4].op = "lstrip"
    /\ result.ret[4].after > result.ret[4].before
    /\ result.ret[5].op = "pop_state" /\ result.ret[6].op = "pop_state"
    /\ remain(vchar_scanner) = line_scanner.data

\* the prerequisites read off the text d from its i-th character on: the
\* runs of characters other than white space up to the first ';', '#' or
\* end of line, a backslash taking the character after it along, "$$"
\* standing for a '$' and "$(a)" for a reference.  runs holds the runs that
\* are complete, run the one being read; ok is FALSE when a '$' starts
\* something else.
RECURSIVE PrereqRuns(_, _, _, _)
PrereqRuns(d, i, runs, run) ==
    LET all == IF Len(run) > 0 THEN Append(runs, run) ELSE runs
    IN  IF i > Len(d) THEN [ok |-> FALSE, runs |-> all, term |-> i]
        ELSE IF d[i] \in eol \cup {";", "#"}
        THEN [ok |-> TRUE, runs |-> all, term |-> i]
        ELSE IF d[i] \in whitespace THEN PrereqRuns(d, i + 1, all, <<>>)
        ELSE IF d[i] = "\\"
        THEN IF i + 1 <= Len(d) /\ d[i + 1] \notin eol
             THEN PrereqRuns(d, i + 2, runs, run \o <<d[i], d[i + 1]>>)
             ELSE [ok |-> FALSE, runs |-> all, term |-> i]
        ELSE IF d[i] = "$"
        THEN IF i + 1 <= Len(d) /\ d[i + 1] = "$"
             THEN PrereqRuns(d, i + 2, runs, Append(run, "$"))
             ELSE IF i + 3 <= Len(d) /\ SubSeq(d, i, i + 3) = <<"$", "(", "a", ")">>
             THEN PrereqRuns(d, i + 4, runs, Append(run, RefItem))
             ELSE [ok |-> FALSE, runs |-> all, term |-> i]
        ELSE PrereqRuns(d, i + 1, runs, Append(run, d[i]))

\* the text of each Expression of a list
ExpressionItems(prereq_list) ==
    [k \in 1..Len(prereq_list) |-> ItemsOf(prereq_list[k].c)]

\* C34: when the text after the ':' of a rule is tokenized into a
\* PrerequisiteList, the list holds one Expression for each run of
\* characters other than white space before the ';', '#' or end of line, in
\* the order of the text, a run that ends in a reference right before ';'
\* or '#' included; and at a ';' the scanner is left on that ';'.
C34_OnePrerequisitePerRun ==
    (/\ result.call = "tokenize_rule_prereq_or_assign"
     /\ result.raised = "none"
     /\ result.ret[1].t = "PrerequisiteList"
     /\ PrereqRuns(vchar_scanner.data, 1, <<>>, <<>>).ok)
    => LET p == PrereqRuns(vchar_scanner.data, 1, <<>>, <<>>)
       IN  /\ ExpressionItems(result.ret[1].c) = p.runs
           /\ vchar_scanner.data[p.term] = ";"
              => ~exhausted(vchar_scanner) /\ vchar_scanner.idx = p.term

\* C35: when the last line of the file ends in backslash-newline and
\* belongs to a recipe, the RecipeList ends with the Recipe of that recipe,
\* made of all the lines collected for it.
C35_ContinuationAtEof ==
    LET lines == line_scanner.data
        texts == RecipeLines(lines, 1).texts
    IN  (/\ result.call = "parse_recipes"
         /\ Len(texts) > 0
         /\ endswith_backslash_nl(texts[Len(texts)]))
        => /\ result.raised = "none"
           /\ Len(result.ret[1].c) > 0
           /\ result.ret[1].c[Len(result.ret[1].c)] = RecipeOf(texts[Len(texts)])

\* C36: when the lines end before the endif of the block, at any depth of
\* nesting, what is raised is a ParseError and nothing else.
C36_MissingEndif ==
    LET lines == line_scanner.data
    IN  (/\ result.call = "handle_conditional_directive"
         /\ BlockEnd(lines, 1, FALSE).kind = "eof"
         /\ NoLineOf(lines, Len(lines), {"else if"})
         /\ ~StartsWithPrefix(lines, Len(lines)))
        => result.raised = "ParseError"

\* the pieces sub are in the string str, one after the other
Contains(str, sub) ==
    \E i \in 0..(Len(str) - Len(sub)) : SubSeq(str, i + 1, i + Len(sub)) = sub

\* C37: the string of an error raised with a position and a description
\* holds the file name, the (row, col) of the position and the text of the
\* description.
C37_ErrorCarriesMessage ==
    (/\ result.call = "raise"
     /\ {"pos", "description"} \subseteq result.ret[1].keys)
    => LET kwargs == result.ret[1]
           str == result.ret[3]
       IN  /\ Contains(str, <<kwargs.pos[1]>>)
           /\ Contains(str, PosStr(kwargs.pos[2]))
           /\ Contains(str, <<kwargs.description>>)

\* C38: between the calls made on the table no evaluation is in progress,
\* and the counter loop of every entry is 0, also after a fetch that raised.
C38_LoopCounterZero ==
    \A n \in DOMAIN symbols : symbols[n].loop = 0

\* C39: in every reachable table, export_start(); add(v, x); export_stop()
\* leaves export_default_value as it was before export_start(): when it was
\* set, a file entry added afterwards is exported.
C39_ExportPairRestores ==
    \A v \in OpNames, w \in OpNames, x \in ValueInputs, p \in PosInputs :
        LET r1 == add(export_start(T), v, x, p)
            t2 == export_stop(r1.t)
            r3 == add(t2, w, x, p)
        IN  /\ t2.export_default_value = T.export_default_value
            /\ (T.export_default_value /\ r3.t.symbols[w].cls = "FileEntry")
               => r3.t.symbols[w].export

\* the pieces of a sequence of items between its commas
RECURSIVE SplitAtCommas(_, _)
SplitAtCommas(items, piece) ==
    IF Len(items) = 0 THEN <<piece>>
    ELSE IF items[1] = "," THEN <<piece>> \o SplitAtCommas(Tail(items), <<>>)
    ELSE SplitAtCommas(Tail(items), Append(piece, items[1]))

\* a sequence of items without its white space
RECURSIVE NoWhitespace(_)
NoWhitespace(items) ==
    IF Len(items) = 0 THEN <<>>
    ELSE (IF items[1] \in whitespace THEN <<>> ELSE <<items[1]>>)
         \o NoWhitespace(Tail(items))

\* C40: when the token list has n commas and n + 1 is at most num_args,
\* args has n + 1 elements and the k-th holds what lies before the k-th
\* comma and after the one before it, nothing when nothing lies there (the
\* white space of the first argument set aside).
C40_ArgumentPositions ==
    LET fname == Head(vchar_scanner.data)
        pieces == SplitAtCommas(Tail(vchar_scanner.data), <<>>)
    IN  (result.call = "_parse_args" /\ Len(pieces) <= num_args(fname))
        => /\ Len(result.ret) = Len(pieces)
           /\ \A k \in 1..Len(pieces) :
                IF k = 1
                THEN NoWhitespace(ItemsOf(result.ret[k])) = NoWhitespace(pieces[k])
                ELSE ItemsOf(result.ret[k]) = pieces[k]

====
